---- MODULE Spec2Model ----
(***************************************************************************)
(* Cable robot controller: the motor-control firmware (polling loop,       *)
(* safety state machine, stepper drivers) and the browser-side command     *)
(* channel (WebSocketClient: ids, pending requests, timeouts, queue,       *)
(* sockets).                                                               *)
(*                                                                         *)
(* Positions are integers in units of 1/PosScale metre, so that the        *)
(* firmware's float -> step truncation is visible.                         *)
(***************************************************************************)
EXTENDS Integers, Sequences, FiniteSets, TLC

\* ------------------------------------------------------------------ bounds
MaxSerial == 1          \* lines waiting in the firmware's serial buffer
MaxCmds == 2            \* sendCommand calls on one client (the user's and onConnected's)
MaxCalTimers == 1       \* calibration timeouts pending at once
MaxSockets == 2         \* WebSocket objects one client creates
MaxTime == 2            \* clock ticks explored

\* --------------------------------------------------------------- constants
STEPS_PER_MM == 80      \* motor steps per unit of the firmware's float positions
PosScale == 2 * STEPS_PER_MM    \* position units per metre: half a motor step

Axes == {"X", "Y", "Z"}

\* the client's clock: Date.now() and the timers advance in ticks of TickMs
CommandTimeoutMs == 10000       \* setTimeout(..., 10000) of sendCommand
TickMs == CommandTimeoutMs \div 2     \* two ticks to a command timeout
ManualReconnectMs == 1000       \* setTimeout(() => this.connect(), 1000)
DefaultMaxReconnectAttempts == 5
DefaultReconnectDelay == 1000

\* a timer of ms milliseconds fires at the first tick at or after its delay
TicksOf(ms) == (ms + TickMs - 1) \div TickMs

\* firmware workspace limits of handleMoveCommand, in position units
FwXMin == -((25 * PosScale) \div 10)
FwXMax == (25 * PosScale) \div 10
FwYMin == -((25 * PosScale) \div 10)
FwYMax == (25 * PosScale) \div 10
FwZMin == (5 * PosScale) \div 10
FwZMax == (45 * PosScale) \div 10

\* {0.0, 0.0, 2.5}
HomePos == [X |-> 0, Y |-> 0, Z |-> (25 * PosScale) \div 10]

\* (long)(v): truncation toward zero of n / d
Trunc(n, d) == IF n >= 0 THEN n \div d ELSE -((-n) \div d)

positionToSteps(position) == Trunc(position * STEPS_PER_MM, PosScale)

stepsToPosition(steps) == (steps * PosScale) \div STEPS_PER_MM

Abs(n) == IF n >= 0 THEN n ELSE -n

Sign(n) == IF n > 0 THEN 1 ELSE IF n < 0 THEN -1 ELSE 0

\* ------------------------------------------------------------------ inputs
\* serial lines the relay may write; cal records that the line arrived
\* while the firmware was inside the delay of a calibration
\* the text of a coordinate field of a MOVE line: a decimal number, the
\* word nan, or anything else (letters, nothing)
Numbers == << "number", "number", "number" >>

Cmd(op) ==
    [op |-> op, x |-> 0, y |-> 0, z |-> 0, text |-> Numbers, cal |-> FALSE]

\* MOVE:<x>,<y>,<z> with three decimal numbers
MoveCmd(x, y, z) ==
    [op |-> "MOVE", x |-> x, y |-> y, z |-> z, text |-> Numbers, cal |-> FALSE]

\* MOVE:<x>,<y>,<z> with the fields as written: text[i] tells what field i
\* holds, x, y and z the value of the fields that are numbers
RawMove(text, x, y, z) ==
    [op |-> "MOVE", x |-> x, y |-> y, z |-> z, text |-> text, cal |-> FALSE]

\* the float that is not a number
NaN == -999999

\* String::toFloat(): the number a field holds, NaN for the word nan, and
\* 0 when the field does not start with a number
toFloat(kind, v) ==
    IF kind = "number" THEN v ELSE IF kind = "nan" THEN NaN ELSE 0

\* a < b on floats: false when either side is NaN
FLess(a, b) == a # NaN /\ b # NaN /\ a < b

\* (long)(NaN * STEPS_PER_MM): the conversion of a NaN to long is undefined;
\* the builds give the lowest long, zero or the highest long
LongOfNaN == { -2147483647 - 1, 0, 2147483647 }

MoveInputs ==
    { MoveCmd(5, 0, 400),       \* in bounds, two X steps from home
      MoveCmd(0, -3, 400),      \* in bounds, one Y step back (-3/2 truncates to -1)
      MoveCmd(401, 0, 79) }     \* x above and z below the limits

SerialInputs ==
    MoveInputs \cup
    { Cmd("MOVE_BAD"), Cmd("ACTIVATE"), Cmd("DEACTIVATE"), Cmd("EMERGENCY_STOP"),
      Cmd("HOME"), Cmd("CALIBRATE"), Cmd("GET_POS"), Cmd("RESET_EMERGENCY"),
      Cmd("UNKNOWN") }

VARIABLES
    \* firmware
    currentPosition, targetPosition, systemActive, emergencyStop,
    isCalibrated, isMoving, motors, pinPressed, serialIn, lastOut, fpc,
    moveInterrupted,
    \* WebSocketClient
    sockets, socket, isConnected, reconnectAttempts, maxReconnectAttempts,
    reconnectDelay, messageQueue, callbacks, promises, timers, now, wire, lost,
    msgLog, url,
    \* RobotController (rc: the fields whose names the firmware also uses)
    rcPosition, rcTargetPosition, workspace, speed, rcIsMoving, moveDirection,
    rcIsCalibrated, rcEmergencyStop, loopAlive, rcStart, rcTicks, rcCall,
    rcCalTimers,
    \* Relay
    hardwareQueue, inFlight, serialLine, delivered, submitted

fwVars == << currentPosition, targetPosition, systemActive, emergencyStop,
             isCalibrated, isMoving, motors, pinPressed, serialIn, lastOut,
             fpc, moveInterrupted >>

\* the firmware's program state (everything the handlers may write)
fwState == << currentPosition, targetPosition, systemActive, emergencyStop,
              isCalibrated, isMoving, motors >>

wsVars == << sockets, socket, isConnected, reconnectAttempts,
             maxReconnectAttempts, reconnectDelay, messageQueue, callbacks,
             promises, timers, now, wire, lost, msgLog, url >>

\* rcStart, rcTicks and rcCall are history: the position when the target was
\* last set, the updatePosition calls made since, and the handler the page
\* ran last; rcCalTimers counts the pending timeouts of calibrate()
rcVars == << rcPosition, rcTargetPosition, workspace, speed, rcIsMoving,
             moveDirection, rcIsCalibrated, rcEmergencyStop, loopAlive,
             rcStart, rcTicks, rcCall, rcCalTimers >>

relayVars == << hardwareQueue, inFlight, serialLine, delivered, submitted >>

vars == << fwVars, wsVars, rcVars, relayVars >>

\* ---------------------------------------------------------------- steppers
\* AccelStepper::stop(): a motor that is running gets a new target a
\* deceleration distance (at least one step) ahead of its position; a motor
\* at rest is left alone.
MotorStopOutcomes(m) ==
    IF m.pos = m.tgt
    THEN { m }
    ELSE { [m EXCEPT !.tgt = m.pos + Sign(m.tgt - m.pos) * k] :
             k \in 1 .. Abs(m.tgt - m.pos) }

StopAllOutcomes ==
    { [a \in Axes |-> IF a = "X" THEN mx ELSE IF a = "Y" THEN my ELSE mz] :
        mx \in MotorStopOutcomes(motors["X"]),
        my \in MotorStopOutcomes(motors["Y"]),
        mz \in MotorStopOutcomes(motors["Z"]) }

\* AccelStepper::run(): at most one step toward the target when a step is due
MotorRun(m, due) ==
    IF due /\ m.pos # m.tgt
    THEN [m EXCEPT !.pos = m.pos + Sign(m.tgt - m.pos)]
    ELSE m

\* the value run() returns: the motor still has to move
MotorRunning(m) == m.pos # m.tgt

\* ---------------------------------------------------------------- firmware
InBoundsFw(x, y, z) ==
    ~ (FLess(x, FwXMin) \/ FLess(FwXMax, x) \/ FLess(y, FwYMin)
       \/ FLess(FwYMax, y) \/ FLess(z, FwZMin) \/ FLess(FwZMax, z))

moveToTarget(tp) ==
    /\ IF \A a \in Axes : tp[a] # NaN
       THEN motors' = [a \in Axes |->
                         [motors[a] EXCEPT !.tgt = positionToSteps(tp[a])]]
       ELSE motors' \in
              { [a \in Axes |-> [motors[a] EXCEPT !.tgt = steps[a]]] :
                  steps \in { f \in [Axes -> LongOfNaN \cup
                                        { positionToSteps(tp[a]) : a \in Axes }] :
                                \A a \in Axes :
                                   IF tp[a] = NaN
                                   THEN f[a] \in LongOfNaN
                                   ELSE f[a] = positionToSteps(tp[a]) } }
    /\ isMoving' = TRUE

\* checkEmergencyStop that forgets to drop systemActive
checkEmergencyStop_keepsActive ==
    IF pinPressed /\ ~emergencyStop
    THEN /\ emergencyStop' = TRUE
         /\ motors' \in StopAllOutcomes
         /\ moveInterrupted' = (moveInterrupted \/ isMoving)
         /\ lastOut' = << "STATUS:EMERGENCY", "Emergency stop activated!" >>
         /\ UNCHANGED << currentPosition, targetPosition, systemActive,
                         isCalibrated, isMoving >>
    ELSE /\ lastOut' = << >>
         /\ UNCHANGED << fwState, moveInterrupted >>

checkEmergencyStop ==
    IF pinPressed /\ ~emergencyStop
    THEN /\ emergencyStop' = TRUE
         /\ systemActive' = FALSE
         /\ motors' \in StopAllOutcomes
         /\ moveInterrupted' = (moveInterrupted \/ isMoving)
         /\ lastOut' = << "STATUS:EMERGENCY", "Emergency stop activated!" >>
         /\ UNCHANGED << currentPosition, targetPosition, isCalibrated, isMoving >>
    ELSE /\ lastOut' = << >>
         /\ UNCHANGED << fwState, moveInterrupted >>

handleMoveCommand(c) ==
    IF ~systemActive \/ emergencyStop
    THEN /\ lastOut' = << "ERROR:System not active or emergency stop" >>
         /\ UNCHANGED << fwState, moveInterrupted >>
    ELSE IF c.op = "MOVE_BAD"
    THEN /\ lastOut' = << "ERROR:Invalid move command format" >>
         /\ UNCHANGED << fwState, moveInterrupted >>
    ELSE IF ~InBoundsFw(toFloat(c.text[1], c.x), toFloat(c.text[2], c.y),
                        toFloat(c.text[3], c.z))
    THEN /\ lastOut' = << "ERROR:Position out of workspace bounds" >>
         /\ UNCHANGED << fwState, moveInterrupted >>
    ELSE /\ targetPosition' = [X |-> toFloat(c.text[1], c.x),
                               Y |-> toFloat(c.text[2], c.y),
                               Z |-> toFloat(c.text[3], c.z)]
         /\ moveToTarget(targetPosition')
         /\ moveInterrupted' = FALSE
         /\ lastOut' = << "Moving to position" >>
         /\ UNCHANGED << currentPosition, systemActive, emergencyStop, isCalibrated >>

\* handleActivateCommand without the calibration gate
handleActivateCommand_noCalibrationGate ==
    IF emergencyStop
    THEN /\ lastOut' = << "ERROR:Clear emergency stop first" >>
         /\ UNCHANGED << fwState, moveInterrupted >>
    ELSE /\ systemActive' = TRUE
         /\ lastOut' = << "STATUS:ACTIVE", "System activated" >>
         /\ UNCHANGED << currentPosition, targetPosition, emergencyStop,
                         isCalibrated, isMoving, motors, moveInterrupted >>

handleActivateCommand ==
    IF emergencyStop
    THEN /\ lastOut' = << "ERROR:Clear emergency stop first" >>
         /\ UNCHANGED << fwState, moveInterrupted >>
    ELSE IF ~isCalibrated
    THEN /\ lastOut' = << "ERROR:Robot not calibrated" >>
         /\ UNCHANGED << fwState, moveInterrupted >>
    ELSE /\ systemActive' = TRUE
         /\ lastOut' = << "STATUS:ACTIVE", "System activated" >>
         /\ UNCHANGED << currentPosition, targetPosition, emergencyStop,
                         isCalibrated, isMoving, motors, moveInterrupted >>

handleDeactivateCommand ==
    /\ systemActive' = FALSE
    /\ motors' \in StopAllOutcomes
    /\ lastOut' = << "STATUS:INACTIVE", "System deactivated" >>
    /\ UNCHANGED << currentPosition, targetPosition, emergencyStop,
                    isCalibrated, isMoving, moveInterrupted >>

handleEmergencyStopCommand ==
    /\ emergencyStop' = TRUE
    /\ systemActive' = FALSE
    /\ motors' \in StopAllOutcomes
    /\ moveInterrupted' = (moveInterrupted \/ isMoving)
    /\ lastOut' = << "STATUS:EMERGENCY", "Emergency stop activated via command" >>
    /\ UNCHANGED << currentPosition, targetPosition, isCalibrated, isMoving >>

\* handleHomeCommand that only looks at the emergency flag
handleHomeCommand_noActiveCheck ==
    IF emergencyStop
    THEN /\ lastOut' = << "ERROR:System not active or emergency stop" >>
         /\ UNCHANGED << fwState, moveInterrupted >>
    ELSE /\ targetPosition' = HomePos
         /\ moveToTarget(targetPosition')
         /\ moveInterrupted' = FALSE
         /\ lastOut' = << "Moving to home position" >>
         /\ UNCHANGED << currentPosition, systemActive, emergencyStop, isCalibrated >>

handleHomeCommand ==
    IF ~systemActive \/ emergencyStop
    THEN /\ lastOut' = << "ERROR:System not active or emergency stop" >>
         /\ UNCHANGED << fwState, moveInterrupted >>
    ELSE /\ targetPosition' = HomePos
         /\ moveToTarget(targetPosition')
         /\ moveInterrupted' = FALSE
         /\ lastOut' = << "Moving to home position" >>
         /\ UNCHANGED << currentPosition, systemActive, emergencyStop, isCalibrated >>

\* the part of handleCalibrateCommand before delay(2000)
CalibrateAccepted == ~systemActive /\ ~emergencyStop

handleCalibrateCommand ==
    /\ lastOut' = IF systemActive
                  THEN << "ERROR:Deactivate system before calibration" >>
                  ELSE IF emergencyStop
                  THEN << "ERROR:Clear emergency stop before calibration" >>
                  ELSE << "Starting calibration..." >>
    /\ UNCHANGED << fwState, moveInterrupted >>

sendPositionUpdate ==
    /\ lastOut' = << "POS" >>
    /\ UNCHANGED << fwState, moveInterrupted >>

\* handleResetEmergency that does not read the pin
handleResetEmergency_ignoresPin ==
    /\ emergencyStop' = FALSE
    /\ lastOut' = << "STATUS:READY", "Emergency stop cleared" >>
    /\ UNCHANGED << currentPosition, targetPosition, systemActive,
                    isCalibrated, isMoving, motors, moveInterrupted >>

handleResetEmergency ==
    IF ~pinPressed
    THEN /\ emergencyStop' = FALSE
         /\ lastOut' = << "STATUS:READY", "Emergency stop cleared" >>
         /\ UNCHANGED << currentPosition, targetPosition, systemActive,
                         isCalibrated, isMoving, motors, moveInterrupted >>
    ELSE /\ lastOut' = << "ERROR:Release emergency stop button first" >>
         /\ UNCHANGED << fwState, moveInterrupted >>

handleCommand(c) ==
    IF c.op \in {"MOVE", "MOVE_BAD"} THEN handleMoveCommand(c)
    ELSE IF c.op = "ACTIVATE" THEN handleActivateCommand
    ELSE IF c.op = "DEACTIVATE" THEN handleDeactivateCommand
    ELSE IF c.op = "EMERGENCY_STOP" THEN handleEmergencyStopCommand
    ELSE IF c.op = "HOME" THEN handleHomeCommand
    ELSE IF c.op = "CALIBRATE" THEN handleCalibrateCommand
    ELSE IF c.op = "GET_POS" THEN sendPositionUpdate
    ELSE IF c.op = "RESET_EMERGENCY" THEN handleResetEmergency
    ELSE /\ lastOut' = << "ERROR:Unknown command" >>
         /\ UNCHANGED << fwState, moveInterrupted >>

\* the motors after one run() each
motorsAfterRun(due) == [a \in Axes |-> MotorRun(motors[a], a \in due)]

\* what updateMotors prints
motorOut(due) ==
    IF isMoving /\ \A a \in Axes : ~MotorRunning(motorsAfterRun(due)[a])
    THEN << "Movement completed", "POS" >>
    ELSE << >>

updateMotors(due) ==
    IF ~isMoving
    THEN UNCHANGED fwState
    ELSE /\ motors' = motorsAfterRun(due)
         /\ IF \A a \in Axes : ~MotorRunning(motors'[a])
            THEN /\ isMoving' = FALSE
                 /\ currentPosition' =
                        [a \in Axes |-> stepsToPosition(motors'[a].pos)]
            ELSE UNCHANGED << currentPosition, isMoving >>
         /\ UNCHANGED << targetPosition, systemActive, emergencyStop, isCalibrated >>

\* ------------------------------------------------- the loop(), step by step
\* loop(): checkEmergencyStop()
FwCheck ==
    /\ fpc = "check"
    /\ checkEmergencyStop
    /\ fpc' = "command"
    /\ UNCHANGED << pinPressed, serialIn >>
    /\ UNCHANGED << wsVars, rcVars, relayVars >>

\* loop(): if (Serial.available()) handleCommand(readStringUntil('\n'))
FwCommand ==
    /\ fpc = "command"
    /\ serialIn # << >>
    /\ handleCommand(Head(serialIn))
    /\ serialIn' = Tail(serialIn)
    /\ fpc' = IF Head(serialIn).op = "CALIBRATE" /\ CalibrateAccepted
              THEN "calibrating" ELSE "motors"
    /\ UNCHANGED pinPressed
    /\ UNCHANGED << wsVars, rcVars, relayVars >>

FwNoCommand ==
    /\ fpc = "command"
    /\ serialIn = << >>
    /\ fpc' = "motors"
    /\ lastOut' = << >>
    /\ UNCHANGED << fwState, moveInterrupted, pinPressed, serialIn >>
    /\ UNCHANGED << wsVars, rcVars, relayVars >>

\* a calibration that ends without setting isCalibrated
FwCalibrateDone_notCalibrated ==
    /\ fpc = "calibrating"
    /\ currentPosition' = HomePos
    /\ targetPosition' = currentPosition'
    /\ motors' = [a \in Axes |->
                    LET p == IF a = "Z" THEN positionToSteps(HomePos.Z) ELSE 0
                    IN  [pos |-> p, tgt |-> p]]
    /\ lastOut' = << "CALIBRATED", "Calibration completed" >>
    /\ fpc' = "motors"
    /\ UNCHANGED << systemActive, emergencyStop, isCalibrated, isMoving,
                    moveInterrupted, pinPressed, serialIn >>
    /\ UNCHANGED << wsVars, rcVars, relayVars >>

\* handleCalibrateCommand after delay(2000)
FwCalibrateDone ==
    /\ fpc = "calibrating"
    /\ currentPosition' = HomePos
    /\ targetPosition' = currentPosition'
    /\ motors' = [a \in Axes |->
                    LET p == IF a = "Z" THEN positionToSteps(HomePos.Z) ELSE 0
                    IN  [pos |-> p, tgt |-> p]]
    /\ isCalibrated' = TRUE
    /\ lastOut' = << "CALIBRATED", "Calibration completed" >>
    /\ fpc' = "motors"
    /\ UNCHANGED << systemActive, emergencyStop, isMoving, moveInterrupted,
                    pinPressed, serialIn >>
    /\ UNCHANGED << wsVars, rcVars, relayVars >>

\* loop(): if (systemActive && !emergencyStop) updateMotors(), followed by the
\* 10 Hz report: if (millis() - lastUpdate > 100 && systemActive) POS
periodicReport(elapsed) ==
    IF elapsed /\ systemActive' THEN << "POS" >> ELSE << >>

FwMotors ==
    /\ fpc = "motors"
    /\ \E elapsed \in BOOLEAN :
          IF systemActive /\ ~emergencyStop
          THEN \E due \in SUBSET Axes :
                  /\ updateMotors(due)
                  /\ lastOut' = motorOut(due) \o periodicReport(elapsed)
          ELSE /\ UNCHANGED fwState
               /\ lastOut' = periodicReport(elapsed)
    /\ fpc' = "check"
    /\ UNCHANGED << moveInterrupted, pinPressed, serialIn >>
    /\ UNCHANGED << wsVars, rcVars, relayVars >>

\* environment: the emergency button is pressed or released
PinChange ==
    /\ pinPressed' = ~pinPressed
    /\ UNCHANGED << fwState, moveInterrupted, serialIn, lastOut, fpc >>
    /\ UNCHANGED << wsVars, rcVars, relayVars >>

\* environment: the relay writes a line to the serial port. A line is seen
\* by the loop at its next Serial.available(), whenever it was written, so
\* arrivals are taken at that point of the loop, or during the delay of a
\* calibration, where they wait in the receive buffer.
SerialArrive ==
    /\ fpc \in { "command", "calibrating" }
    /\ Len(serialIn) < MaxSerial
    /\ \E c \in SerialInputs :
         serialIn' = Append(serialIn, [c EXCEPT !.cal = (fpc = "calibrating")])
    /\ UNCHANGED << fwState, moveInterrupted, pinPressed, lastOut, fpc >>
    /\ UNCHANGED << wsVars, rcVars, relayVars >>

InitFW ==
    /\ currentPosition = HomePos
    /\ targetPosition = HomePos
    /\ systemActive = FALSE
    /\ emergencyStop = FALSE
    /\ isCalibrated = FALSE
    /\ isMoving = FALSE
    /\ motors = [a \in Axes |-> [pos |-> 0, tgt |-> 0]]
    /\ pinPressed = FALSE
    /\ serialIn = << >>
    /\ lastOut = << "Cable Robot Controller Started", "STATUS:READY" >>
    /\ fpc = "check"
    /\ moveInterrupted = FALSE

\* lines as the serial port may deliver them, well-formed or not
RawLines ==
    { MoveCmd(5, 0, 400),                                   \* MOVE:0.031,0,2.5
      MoveCmd(401, 0, 79),                                  \* out of bounds
      Cmd("MOVE_BAD"),                                      \* MOVE:1.0 2.5
      Cmd("UNKNOWN"),                                       \* PING
      RawMove(<< "number", "garbage", "number" >>, 160, 0, 400),  \* MOVE:1.0,abc,2.5
      RawMove(<< "garbage", "garbage", "garbage" >>, 0, 0, 0),    \* MOVE:,,
      RawMove(<< "nan", "number", "number" >>, 0, 0, 400) }       \* MOVE:nan,0,2.5

\* the motors at rest at position p
AtRest(p) ==
    [a \in Axes |-> [pos |-> positionToSteps(p[a]), tgt |-> positionToSteps(p[a])]]

FwState(cur, tgt, active, es, cal, moving, m, interrupted) ==
    [currentPosition |-> cur, targetPosition |-> tgt, systemActive |-> active,
     emergencyStop |-> es, isCalibrated |-> cal, isMoving |-> moving,
     motors |-> m, moveInterrupted |-> interrupted]

\* states the loop reaches: after power-up, in emergency stop before any
\* calibration, Ready, Active at rest, Active and moving to the first target
\* of MoveInputs, and in emergency stop after that move was interrupted
FwStateInputs ==
    { FwState(HomePos, HomePos, FALSE, FALSE, FALSE, FALSE,
              [a \in Axes |-> [pos |-> 0, tgt |-> 0]], FALSE),
      FwState(HomePos, HomePos, FALSE, TRUE, FALSE, FALSE,
              [a \in Axes |-> [pos |-> 0, tgt |-> 0]], FALSE),
      FwState(HomePos, HomePos, FALSE, FALSE, TRUE, FALSE, AtRest(HomePos), FALSE),
      FwState(HomePos, HomePos, TRUE, FALSE, TRUE, FALSE, AtRest(HomePos), FALSE),
      FwState(HomePos, [X |-> 5, Y |-> 0, Z |-> 400], TRUE, FALSE, TRUE, TRUE,
              [AtRest(HomePos) EXCEPT !["X"].tgt = 2], FALSE),
      FwState(HomePos, [X |-> 5, Y |-> 0, Z |-> 400], FALSE, TRUE, TRUE, TRUE,
              [AtRest(HomePos) EXCEPT !["X"].tgt = 1], TRUE) }

\* the loop about to read a line, in one of these states
FwAt(st, line) ==
    /\ currentPosition = st.currentPosition
    /\ targetPosition = st.targetPosition
    /\ systemActive = st.systemActive
    /\ emergencyStop = st.emergencyStop
    /\ isCalibrated = st.isCalibrated
    /\ isMoving = st.isMoving
    /\ motors = st.motors
    /\ moveInterrupted = st.moveInterrupted
    /\ serialIn = << line >>
    /\ lastOut = << >>
    /\ fpc = "command"

NextFW ==
    \/ FwCheck
    \/ FwCommand
    \/ FwNoCommand
    \/ FwCalibrateDone
    \/ FwMotors
    \/ PinChange
    \/ SerialArrive

\* ------------------------------------------------------- WebSocketClient
\* values of Math.random().toString(36).substr(2, 9): the first call's value
\* is named a, a later call draws the same value again or another one
RandomSuffixes == IF promises = << >> THEN {"a"} ELSE {"a", "b"}

UserCommands == {"move"}        \* sendMoveCommand, sendHomeCommand, ...

\* 'msg_' + Date.now() + '_' + random
generateMessageId(r) == << now, r >>

NoId == << 0, "-" >>

\* the message object of the n-th sendCommand call
Msg(n, id, command) == [n |-> n, id |-> id, command |-> command]

Pending(id) == \E e \in callbacks : e.id = id

\* this.socket.readyState, null-safe
ReadyState == IF socket = 0 THEN "NONE" ELSE sockets[socket]

\* processMessageQueue():  while (queue.length > 0) this.socket.send(queue.shift())
\* on a socket in state rs: an OPEN socket transmits, a CLOSING or CLOSED one
\* discards silently, a CONNECTING one raises InvalidStateError.
processMessageQueue(rs, q) ==
    IF q = << >>
    THEN [queue |-> q, sent |-> << >>, dropped |-> {}, threw |-> FALSE]
    ELSE IF rs = "OPEN"
    THEN [queue |-> << >>, sent |-> q, dropped |-> {}, threw |-> FALSE]
    ELSE IF rs = "CONNECTING"
    THEN [queue |-> Tail(q), sent |-> << >>, dropped |-> { Head(q) }, threw |-> TRUE]
    ELSE [queue |-> << >>, sent |-> << >>,
          dropped |-> { q[i] : i \in DOMAIN q }, threw |-> FALSE]

\* send(message), as a function of the state it runs in:
\* transmit when isConnected and the current socket is OPEN, queue otherwise
SendsNow(conn, rs) == conn /\ rs = "OPEN"

\* sendCommand(command) run in a state with connection flag conn, current
\* socket state rs, queue q, wire w, callbacks cbs, promises ps, timers ts
sendCommandIn(command, r, conn, rs, q, w, cbs, ps, ts) ==
    LET id == generateMessageId(r)
        k == Len(ps) + 1
        m == Msg(k, id, command)
    IN  [ callbacks |-> { e \in cbs : e.id # id } \cup { [id |-> id, p |-> k] },
          promises |-> Append(ps, [id |-> id, command |-> command, st |-> "pending",
                                   due |-> now + TicksOf(CommandTimeoutMs),
                                   calls |-> 0]),
          timers |-> ts \cup { [kind |-> "command", id |-> id, p |-> k,
                                 due |-> now + TicksOf(CommandTimeoutMs),
                                 delay |-> CommandTimeoutMs] },
          wire |-> IF SendsNow(conn, rs) THEN Append(w, m) ELSE w,
          queue |-> IF SendsNow(conn, rs) THEN q ELSE Append(q, m) ]

\* callbacks[id].resolve / .reject (st: "resolved", "rejected" or "timeout"),
\* then delete callbacks[id]; a promise keeps its first settlement
Settle(id, st) ==
    /\ promises' = [k \in DOMAIN promises |->
                      IF \E e \in callbacks : e.id = id /\ e.p = k
                      THEN [promises[k] EXCEPT
                              !.st = IF @ = "pending" THEN st ELSE @,
                              !.calls = @ + 1]
                      ELSE promises[k]]
    /\ callbacks' = { e \in callbacks : e.id # id }

\* a public sendXxxCommand() call
SendCommand ==
    /\ Len(promises) < MaxCmds
    /\ \E command \in UserCommands, r \in RandomSuffixes :
         LET res == sendCommandIn(command, r, isConnected, ReadyState,
                                  messageQueue, wire, callbacks, promises, timers)
         IN  /\ callbacks' = res.callbacks
             /\ promises' = res.promises
             /\ timers' = res.timers
             /\ wire' = res.wire
             /\ messageQueue' = res.queue
    /\ UNCHANGED << sockets, socket, isConnected, reconnectAttempts,
                    maxReconnectAttempts, url, reconnectDelay, now, lost, msgLog >>
    /\ UNCHANGED << fwVars, rcVars, relayVars >>

\* the 10 s timer of sendCommand fires
CommandTimeout ==
    /\ UNCHANGED << fwVars, rcVars, relayVars >>
    /\ \E t \in timers :
           /\ t.kind = "command"
           /\ t.due <= now
           /\ timers' = timers \ {t}
           /\ IF Pending(t.id)
              THEN Settle(t.id, "timeout")
              ELSE UNCHANGED << promises, callbacks >>
           /\ UNCHANGED << sockets, socket, isConnected, reconnectAttempts,
                           maxReconnectAttempts, url, reconnectDelay, messageQueue,
                           now, wire, lost, msgLog >>

\* connect(): this.socket = new WebSocket(this.url) inside try / catch. The
\* constructor raises SyntaxError for a URL whose scheme is not ws, wss, http
\* or https: this.socket is then not assigned, no listener is set, and the
\* catch branch runs handleConnectionError(), which clears isConnected.
connect ==
    IF url.scheme \in { "ws", "wss", "http", "https" }
    THEN /\ Len(sockets) < MaxSockets
         /\ sockets' = Append(sockets, "CONNECTING")
         /\ socket' = Len(sockets) + 1
         /\ UNCHANGED isConnected
    ELSE /\ isConnected' = FALSE
         /\ UNCHANGED << sockets, socket >>

\* the sockets after this.socket.close()
socketsAfterClose ==
    IF socket # 0 /\ sockets[socket] \in {"CONNECTING", "OPEN"}
    THEN [sockets EXCEPT ![socket] = "CLOSING"]
    ELSE sockets

\* a manual connect() call
Connect ==
    /\ connect
    /\ UNCHANGED << reconnectAttempts, maxReconnectAttempts, url,
                    reconnectDelay, messageQueue, callbacks, promises, timers,
                    now, wire, lost, msgLog >>
    /\ UNCHANGED << fwVars, rcVars, relayVars >>

\* disconnect()
Disconnect ==
    /\ socketsAfterClose # sockets
    /\ sockets' = socketsAfterClose
    /\ UNCHANGED << socket, isConnected, reconnectAttempts, maxReconnectAttempts, url,
                    reconnectDelay, messageQueue, callbacks, promises, timers,
                    now, wire, lost, msgLog >>
    /\ UNCHANGED << fwVars, rcVars, relayVars >>

\* reconnect(): disconnect(), then connect() after one second; explored with
\* one such timer outstanding at a time and while a socket can still be made
Reconnect ==
    /\ \A t \in timers : t.kind # "manual"
    /\ Len(sockets) < MaxSockets
    /\ sockets' = socketsAfterClose
    /\ timers' = timers \cup { [kind |-> "manual", id |-> NoId, p |-> 0,
                                 due |-> now + TicksOf(ManualReconnectMs),
                                 delay |-> ManualReconnectMs] }
    /\ UNCHANGED << socket, isConnected, reconnectAttempts, maxReconnectAttempts, url,
                    reconnectDelay, messageQueue, callbacks, promises,
                    now, wire, lost, msgLog >>
    /\ UNCHANGED << fwVars, rcVars, relayVars >>

\* the timer of reconnect() fires
ManualTimer ==
    /\ UNCHANGED << fwVars, rcVars, relayVars >>
    /\ \E t \in timers :
           /\ t.kind = "manual"
           /\ t.due <= now
           /\ timers' = timers \ {t}
           /\ connect
           /\ UNCHANGED << reconnectAttempts, maxReconnectAttempts, url,
                           reconnectDelay, messageQueue, callbacks, promises,
                           now, wire, lost, msgLog >>

\* the timer of handleDisconnection fires
ReconnectTimer ==
    /\ UNCHANGED << fwVars, rcVars, relayVars >>
    /\ \E t \in timers :
           /\ t.kind = "reconnect"
           /\ t.due <= now
           /\ timers' = timers \ {t}
           /\ reconnectAttempts' = reconnectAttempts + 1
           /\ connect
           /\ UNCHANGED << maxReconnectAttempts, url, reconnectDelay,
                           messageQueue, callbacks, promises, now, wire, lost, msgLog >>

\* socket s fires open: onopen
OnOpen(s) ==
    /\ sockets[s] = "CONNECTING"
    /\ sockets' = [sockets EXCEPT ![s] = "OPEN"]
    /\ isConnected' = TRUE
    /\ reconnectAttempts' = 0
    /\ LET flushed == processMessageQueue(sockets'[socket], messageQueue)
       IN  /\ lost' = lost \cup flushed.dropped
           /\ IF flushed.threw
              THEN /\ messageQueue' = flushed.queue
                   /\ wire' = wire \o flushed.sent
                   /\ UNCHANGED << callbacks, promises, timers >>
              ELSE \E r \in RandomSuffixes :
                     \* onConnected(): this.sendCommand('get_status')
                     /\ Len(promises) < MaxCmds
                     /\ LET res == sendCommandIn("get_status", r, TRUE,
                                    sockets'[socket], flushed.queue,
                                    wire \o flushed.sent, callbacks, promises,
                                    timers)
                        IN  /\ callbacks' = res.callbacks
                            /\ promises' = res.promises
                            /\ timers' = res.timers
                            /\ wire' = res.wire
                            /\ messageQueue' = res.queue
    /\ UNCHANGED << socket, maxReconnectAttempts, url, reconnectDelay, now, msgLog >>
    /\ UNCHANGED << fwVars, rcVars, relayVars >>

\* socket s fires close (after error, when the connection failed): onerror
\* sets isConnected = false as onclose does; onclose, handleDisconnection
OnClose(s) ==
    /\ sockets[s] \in {"CONNECTING", "OPEN", "CLOSING"}
    /\ sockets' = [sockets EXCEPT ![s] = "CLOSED"]
    /\ isConnected' = FALSE
    /\ timers' = IF reconnectAttempts < maxReconnectAttempts
                 THEN timers \cup
                      { [kind |-> "reconnect", id |-> NoId, p |-> s,
                         due |-> now + TicksOf(reconnectDelay * reconnectAttempts),
                         delay |-> reconnectDelay * reconnectAttempts] }
                 ELSE timers
    /\ UNCHANGED << socket, reconnectAttempts, maxReconnectAttempts, url,
                    reconnectDelay, messageQueue, callbacks, promises,
                    now, wire, lost, msgLog >>
    /\ UNCHANGED << fwVars, rcVars, relayVars >>

\* --------------------------------------------------------- RobotController
\* client positions are integers in units of 1/RcScale metre, speeds in
\* tenths of a metre per second
RcScale == 6250

\* a bound of b tenths of a metre, in position units
Tenths(b) == (b * RcScale) \div 10

Pos(x, y, z) == [x |-> x, y |-> y, z |-> z]

\* { x: 0, y: 0, z: 2.5 }
RcHome == Pos(0, 0, Tenths(25))

\* this.speed = 1.0
DefaultSpeed == 10

Box(xmin, xmax, ymin, ymax, zmin, zmax) ==
    [x |-> [min |-> xmin, max |-> xmax], y |-> [min |-> ymin, max |-> ymax],
     z |-> [min |-> zmin, max |-> zmax]]

\* this.workspace of the constructor
DefaultWorkspace ==
    Box(-Tenths(25), Tenths(25), -Tenths(25), Tenths(25), Tenths(5), Tenths(45))

\* bounds the settings panel may pass to setWorkspaceBounds
WorkspaceInputs ==
    { Box(-Tenths(25), Tenths(25), -Tenths(25), Tenths(25), -Tenths(25), Tenths(25)),
      Box(-Tenths(50), Tenths(50), -Tenths(50), Tenths(50), 0, Tenths(50)) }

\* targets a slider, the settings panel or a recorded path may pass
TargetInputs ==
    { Pos(Tenths(10), -Tenths(10), Tenths(30)),     \* inside every workspace
      Pos(Tenths(26), 0, Tenths(25)),               \* x just above the default maximum
      Pos(0, 0, Tenths(2)),                         \* z below the default minimum
      Pos(Tenths(100), Tenths(100), Tenths(100)) }  \* (10, 10, 10)

Max(a, b) == IF a >= b THEN a ELSE b

Min(a, b) == IF a <= b THEN a ELSE b

\* Math.max(min, Math.min(max, v))
Clamp(lo, hi, v) == Max(lo, Min(hi, v))

\* the clamping of moveToPosition that forgets the upper bounds
clampToWorkspace_noUpperBound(ws, t) ==
    Pos(Max(ws.x.min, t.x), Max(ws.y.min, t.y), Max(ws.z.min, t.z))

\* the three clamping lines of moveToPosition
clampToWorkspace(ws, t) ==
    Pos(Clamp(ws.x.min, ws.x.max, t.x), Clamp(ws.y.min, ws.y.max, t.y),
        Clamp(ws.z.min, ws.z.max, t.z))

isInWorkspace(t) ==
    /\ t.x >= workspace.x.min /\ t.x <= workspace.x.max
    /\ t.y >= workspace.y.min /\ t.y <= workspace.y.max
    /\ t.z >= workspace.z.min /\ t.z <= workspace.z.max

\* moveToPosition(x, y, z) up to the test of the connection.
\* window.websocketClient exists and its isConnected is a boolean field, so
\* the call window.websocketClient.isConnected() raises a TypeError: nothing
\* is sent and the trailing updatePosition() is not reached.
moveToPosition(t) ==
    IF rcEmergencyStop
    THEN UNCHANGED << rcTargetPosition, rcStart, rcTicks >>
    ELSE /\ rcTargetPosition' = clampToWorkspace(workspace, t)
         /\ rcStart' = rcPosition
         /\ rcTicks' = 0

\* moveToPosition ends in the TypeError
moveToPositionThrows == ~rcEmergencyStop

\* a caller outside the update loop: slider, settings panel, path playback
MoveToPosition(t) ==
    /\ moveToPosition(t)
    /\ rcCall' = "moveToPosition"
    /\ UNCHANGED << rcPosition, workspace, speed, rcIsMoving, moveDirection,
                    rcIsCalibrated, rcEmergencyStop, loopAlive, rcCalTimers >>
    /\ UNCHANGED << fwVars, wsVars, relayVars >>

\* setWorkspaceBounds(bounds)
SetWorkspaceBounds(bounds) ==
    /\ workspace' = bounds
    /\ rcCall' = "setWorkspaceBounds"
    /\ UNCHANGED << rcPosition, rcTargetPosition, speed, rcIsMoving,
                    moveDirection, rcIsCalibrated, rcEmergencyStop, loopAlive,
                    rcStart, rcTicks, rcCalTimers >>
    /\ UNCHANGED << fwVars, wsVars, relayVars >>

\* ticks of the update loop counted after the target was set
MaxTicks == 5

RECURSIVE SqrtBetween(_, _, _)
\* the largest r in lo .. hi with r * r <= n
SqrtBetween(n, lo, hi) ==
    IF lo >= hi
    THEN lo
    ELSE LET mid == (lo + hi + 1) \div 2
         IN  IF mid * mid <= n
             THEN SqrtBetween(n, mid, hi)
             ELSE SqrtBetween(n, lo, mid - 1)

\* Math.sqrt, exact on the squares the inputs produce
Sqrt(n) == SqrtBetween(n, 0, Min(n, 46340))

\* dx*dx + dy*dy + dz*dz from p to q
Dist2(p, q) ==
    (q.x - p.x) * (q.x - p.x) + (q.y - p.y) * (q.y - p.y)
        + (q.z - p.z) * (q.z - p.z)

\* this.speed * 0.016, in position units
perFrame(s) == (s * 16 * RcScale) \div 10000

\* distance > 0.01
Significant(d2) == d2 > (RcScale * RcScale) \div 10000

\* updatePosition() that always moves a whole frame's distance
updatePositionOf_noMin(p, tp, s) ==
    LET dx == tp.x - p.x
        dy == tp.y - p.y
        dz == tp.z - p.z
        distance == Sqrt(dx * dx + dy * dy + dz * dz)
    IN  IF Significant(dx * dx + dy * dy + dz * dz)
        THEN LET moveDistance == perFrame(s)
             IN  Pos(p.x + Trunc(dx * moveDistance, distance),
                     p.y + Trunc(dy * moveDistance, distance),
                     p.z + Trunc(dz * moveDistance, distance))
        ELSE p

\* updatePosition(): the position after one call from position p with
\* target tp and speed s
updatePositionOf(p, tp, s) ==
    LET dx == tp.x - p.x
        dy == tp.y - p.y
        dz == tp.z - p.z
        distance == Sqrt(dx * dx + dy * dy + dz * dz)
    IN  IF Significant(dx * dx + dy * dy + dz * dz)
        THEN LET moveDistance == Min(perFrame(s), distance)
             IN  Pos(p.x + Trunc(dx * moveDistance, distance),
                     p.y + Trunc(dy * moveDistance, distance),
                     p.z + Trunc(dz * moveDistance, distance))
        ELSE p

updatePosition ==
    rcPosition' = updatePositionOf(rcPosition, rcTargetPosition, speed)

\* moveDirection before the first startMovement and after stopMovement
NoDirection == [axis |-> "none", direction |-> 0]

\* newPos of the update loop: the position moved one frame along the held axis
heldTarget ==
    LET moveDistance == perFrame(speed) * moveDirection.direction
    IN  Pos(rcPosition.x + (IF moveDirection.axis = "x" THEN moveDistance ELSE 0),
            rcPosition.y + (IF moveDirection.axis = "y" THEN moveDistance ELSE 0),
            rcPosition.z + (IF moveDirection.axis = "z" THEN moveDistance ELSE 0))

\* one animation frame: the update callback of startUpdateLoop. With a move
\* button held it calls moveToPosition(newPos) first: outside emergency stop
\* that call raises, which leaves the callback before updatePosition() and
\* before requestAnimationFrame(update) and ends the loop; in emergency stop
\* it returns at once and the frame goes on to updatePosition().
UpdateLoop ==
    /\ loopAlive
    /\ rcTicks < MaxTicks
    /\ IF rcIsMoving /\ moveDirection # NoDirection /\ moveToPositionThrows
       THEN /\ moveToPosition(heldTarget)
            /\ loopAlive' = FALSE
            /\ UNCHANGED rcPosition
       ELSE /\ updatePosition
            /\ rcTicks' = rcTicks + 1
            /\ UNCHANGED << rcTargetPosition, rcStart, loopAlive >>
    /\ UNCHANGED << workspace, speed, rcIsMoving, moveDirection,
                    rcIsCalibrated, rcEmergencyStop, rcCall, rcCalTimers >>
    /\ UNCHANGED << fwVars, wsVars, relayVars >>

\* startMovement(event) without its emergency-stop test
startMovement_noEmergencyCheck(axis, direction) ==
    /\ moveDirection' = [axis |-> axis, direction |-> direction]
    /\ rcIsMoving' = TRUE

\* startMovement(event)
startMovement(axis, direction) ==
    IF rcEmergencyStop
    THEN UNCHANGED << moveDirection, rcIsMoving >>
    ELSE /\ moveDirection' = [axis |-> axis, direction |-> direction]
         /\ rcIsMoving' = TRUE

\* mousedown on a move button
StartMovement(axis, direction) ==
    /\ startMovement(axis, direction)
    /\ rcCall' = "startMovement"
    /\ UNCHANGED << rcPosition, rcTargetPosition, workspace, speed,
                    rcIsCalibrated, rcEmergencyStop, loopAlive, rcStart, rcTicks,
                    rcCalTimers >>
    /\ UNCHANGED << fwVars, wsVars, relayVars >>

\* stopMovement(): mouseup or mouseleave
StopMovement ==
    /\ rcIsMoving \/ moveDirection # NoDirection
    /\ rcIsMoving' = FALSE
    /\ moveDirection' = NoDirection
    /\ rcCall' = "stopMovement"
    /\ UNCHANGED << rcPosition, rcTargetPosition, workspace, speed,
                    rcIsCalibrated, rcEmergencyStop, loopAlive, rcStart, rcTicks,
                    rcCalTimers >>
    /\ UNCHANGED << fwVars, wsVars, relayVars >>

\* goHome(): moveToPosition(0, 0, 2.5) unless in emergency stop
goHome ==
    IF rcEmergencyStop
    THEN UNCHANGED << rcTargetPosition, rcStart, rcTicks >>
    ELSE moveToPosition(RcHome)

\* click on the home button
GoHome ==
    /\ goHome
    /\ rcCall' = "goHome"
    /\ UNCHANGED << rcPosition, workspace, speed, rcIsMoving, moveDirection,
                    rcIsCalibrated, rcEmergencyStop, loopAlive, rcCalTimers >>
    /\ UNCHANGED << fwVars, wsVars, relayVars >>

\* calibrate(): click on the calibrate button; starts the 3000 ms timeout
\* unless in emergency stop, and sends nothing
Calibrate ==
    /\ rcEmergencyStop \/ rcCalTimers < MaxCalTimers
    /\ rcCalTimers' = IF rcEmergencyStop THEN rcCalTimers ELSE rcCalTimers + 1
    /\ rcCall' = "calibrate"
    /\ UNCHANGED << rcPosition, rcTargetPosition, workspace, speed, rcIsMoving,
                    moveDirection, rcIsCalibrated, rcEmergencyStop, loopAlive,
                    rcStart, rcTicks >>
    /\ UNCHANGED << fwVars, wsVars, relayVars >>

\* the callback of calibrate()'s setTimeout
CalibrateTimeout ==
    /\ rcCalTimers > 0
    /\ rcCalTimers' = rcCalTimers - 1
    /\ rcIsCalibrated' = TRUE
    /\ UNCHANGED << rcPosition, rcTargetPosition, workspace, speed, rcIsMoving,
                    moveDirection, rcEmergencyStop, loopAlive, rcStart, rcTicks,
                    rcCall >>
    /\ UNCHANGED << fwVars, wsVars, relayVars >>

\* triggerEmergencyStop(): toggles the flag and clears isMoving; the
\* remaining lines change the button and the status text
triggerEmergencyStop ==
    /\ rcEmergencyStop' = ~rcEmergencyStop
    /\ rcIsMoving' = FALSE

\* click on the emergency-stop button
TriggerEmergencyStop ==
    /\ triggerEmergencyStop
    /\ rcCall' = "triggerEmergencyStop"
    /\ UNCHANGED << rcPosition, rcTargetPosition, workspace, speed,
                    moveDirection, rcIsCalibrated, loopAlive, rcStart, rcTicks,
                    rcCalTimers >>
    /\ UNCHANGED << fwVars, wsVars, relayVars >>

\* speeds the page may set (1.0 and 2.5 m/s)
SpeedInputs == { DefaultSpeed, 25 }

\* setSpeed(event), a click on a speed button, and GUIControls.onSpeedChange,
\* the speed slider of the settings panel: both assign robotController.speed,
\* whatever the controller is doing
SetSpeed(s) ==
    /\ speed' = s
    /\ rcCall' = "setSpeed"
    /\ UNCHANGED << rcPosition, rcTargetPosition, workspace, rcIsMoving,
                    moveDirection, rcIsCalibrated, rcEmergencyStop, loopAlive,
                    rcStart, rcTicks, rcCalTimers >>
    /\ UNCHANGED << fwVars, wsVars, relayVars >>

\* this.stepSize = 0.1
stepSize == Tenths(1)

\* event.key: the value of a key, written as the sequence of the code points
\* of its characters. The keys pressed: "W" (forward with the shift key
\* held), " " (the space bar), "x" (a key the switch has no case for) and
\* "Enter" (a named key)
KeyInputs == { << 87 >>, << 32 >>, << 120 >>, << 69, 110, 116, 101, 114 >> }

\* event.key.toLowerCase(): every code point replaced by its lower case and
\* every other one kept. A to Z (65..90) move up by 32; beyond Basic Latin
\* the simple lower-case mappings of Unicode 17 are listed as runs
\* << first, last, offset, stride >>; the capital I with dot above (304)
\* becomes i followed by the combining dot (105, 775). A key value is the
\* name of a key or one typed character, so the rule for a capital sigma at
\* the end of a word, which looks at the neighbouring letters, has no case.
toLowerCase(key) ==
    LET runs ==
        { << 192, 214, 32, 1 >>, << 216, 222, 32, 1 >>, << 256, 302, 1, 2 >>,
          << 306, 310, 1, 2 >>, << 313, 327, 1, 2 >>, << 330, 374, 1, 2 >>,
          << 376, 376, -121, 1 >>, << 377, 381, 1, 2 >>,
          << 385, 385, 210, 1 >>, << 386, 388, 1, 2 >>,
          << 390, 390, 206, 1 >>, << 391, 391, 1, 1 >>,
          << 393, 394, 205, 1 >>, << 395, 395, 1, 1 >>,
          << 398, 398, 79, 1 >>, << 399, 399, 202, 1 >>,
          << 400, 400, 203, 1 >>, << 401, 401, 1, 1 >>,
          << 403, 403, 205, 1 >>, << 404, 404, 207, 1 >>,
          << 406, 406, 211, 1 >>, << 407, 407, 209, 1 >>,
          << 408, 408, 1, 1 >>, << 412, 412, 211, 1 >>,
          << 413, 413, 213, 1 >>, << 415, 415, 214, 1 >>,
          << 416, 420, 1, 2 >>, << 422, 422, 218, 1 >>, << 423, 423, 1, 1 >>,
          << 425, 425, 218, 1 >>, << 428, 428, 1, 1 >>,
          << 430, 430, 218, 1 >>, << 431, 431, 1, 1 >>,
          << 433, 434, 217, 1 >>, << 435, 437, 1, 2 >>,
          << 439, 439, 219, 1 >>, << 440, 440, 1, 1 >>, << 444, 444, 1, 1 >>,
          << 452, 452, 2, 1 >>, << 453, 453, 1, 1 >>, << 455, 455, 2, 1 >>,
          << 456, 456, 1, 1 >>, << 458, 458, 2, 1 >>, << 459, 475, 1, 2 >>,
          << 478, 494, 1, 2 >>, << 497, 497, 2, 1 >>, << 498, 500, 1, 2 >>,
          << 502, 502, -97, 1 >>, << 503, 503, -56, 1 >>,
          << 504, 542, 1, 2 >>, << 544, 544, -130, 1 >>,
          << 546, 562, 1, 2 >>, << 570, 570, 10795, 1 >>,
          << 571, 571, 1, 1 >>, << 573, 573, -163, 1 >>,
          << 574, 574, 10792, 1 >>, << 577, 577, 1, 1 >>,
          << 579, 579, -195, 1 >>, << 580, 580, 69, 1 >>,
          << 581, 581, 71, 1 >>, << 582, 590, 1, 2 >>, << 880, 882, 1, 2 >>,
          << 886, 886, 1, 1 >>, << 895, 895, 116, 1 >>,
          << 902, 902, 38, 1 >>, << 904, 906, 37, 1 >>,
          << 908, 908, 64, 1 >>, << 910, 911, 63, 1 >>,
          << 913, 929, 32, 1 >>, << 931, 939, 32, 1 >>, << 975, 975, 8, 1 >>,
          << 984, 1006, 1, 2 >>, << 1012, 1012, -60, 1 >>,
          << 1015, 1015, 1, 1 >>, << 1017, 1017, -7, 1 >>,
          << 1018, 1018, 1, 1 >>, << 1021, 1023, -130, 1 >>,
          << 1024, 1039, 80, 1 >>, << 1040, 1071, 32, 1 >>,
          << 1120, 1152, 1, 2 >>, << 1162, 1214, 1, 2 >>,
          << 1216, 1216, 15, 1 >>, << 1217, 1229, 1, 2 >>,
          << 1232, 1326, 1, 2 >>, << 1329, 1366, 48, 1 >>,
          << 4256, 4293, 7264, 1 >>, << 4295, 4295, 7264, 1 >>,
          << 4301, 4301, 7264, 1 >>, << 5024, 5103, 38864, 1 >>,
          << 5104, 5109, 8, 1 >>, << 7305, 7305, 1, 1 >>,
          << 7312, 7354, -3008, 1 >>,
          << 7357, 7359, -3008, 1 >>, << 7680, 7828, 1, 2 >>,
          << 7838, 7838, -7615, 1 >>, << 7840, 7934, 1, 2 >>,
          << 7944, 7951, -8, 1 >>, << 7960, 7965, -8, 1 >>,
          << 7976, 7983, -8, 1 >>, << 7992, 7999, -8, 1 >>,
          << 8008, 8013, -8, 1 >>, << 8025, 8031, -8, 2 >>,
          << 8040, 8047, -8, 1 >>, << 8072, 8079, -8, 1 >>,
          << 8088, 8095, -8, 1 >>, << 8104, 8111, -8, 1 >>,
          << 8120, 8121, -8, 1 >>, << 8122, 8123, -74, 1 >>,
          << 8124, 8124, -9, 1 >>, << 8136, 8139, -86, 1 >>,
          << 8140, 8140, -9, 1 >>, << 8152, 8153, -8, 1 >>,
          << 8154, 8155, -100, 1 >>, << 8168, 8169, -8, 1 >>,
          << 8170, 8171, -112, 1 >>, << 8172, 8172, -7, 1 >>,
          << 8184, 8185, -128, 1 >>, << 8186, 8187, -126, 1 >>,
          << 8188, 8188, -9, 1 >>, << 8486, 8486, -7517, 1 >>,
          << 8490, 8490, -8383, 1 >>, << 8491, 8491, -8262, 1 >>,
          << 8498, 8498, 28, 1 >>, << 8544, 8559, 16, 1 >>,
          << 8579, 8579, 1, 1 >>, << 9398, 9423, 26, 1 >>,
          << 11264, 11311, 48, 1 >>, << 11360, 11360, 1, 1 >>,
          << 11362, 11362, -10743, 1 >>, << 11363, 11363, -3814, 1 >>,
          << 11364, 11364, -10727, 1 >>, << 11367, 11371, 1, 2 >>,
          << 11373, 11373, -10780, 1 >>, << 11374, 11374, -10749, 1 >>,
          << 11375, 11375, -10783, 1 >>, << 11376, 11376, -10782, 1 >>,
          << 11378, 11378, 1, 1 >>, << 11381, 11381, 1, 1 >>,
          << 11390, 11391, -10815, 1 >>, << 11392, 11490, 1, 2 >>,
          << 11499, 11501, 1, 2 >>, << 11506, 11506, 1, 1 >>,
          << 42560, 42604, 1, 2 >>, << 42624, 42650, 1, 2 >>,
          << 42786, 42798, 1, 2 >>, << 42802, 42862, 1, 2 >>,
          << 42873, 42875, 1, 2 >>, << 42877, 42877, -35332, 1 >>,
          << 42878, 42886, 1, 2 >>, << 42891, 42891, 1, 1 >>,
          << 42893, 42893, -42280, 1 >>, << 42896, 42898, 1, 2 >>,
          << 42902, 42920, 1, 2 >>, << 42922, 42922, -42308, 1 >>,
          << 42923, 42923, -42319, 1 >>, << 42924, 42924, -42315, 1 >>,
          << 42925, 42925, -42305, 1 >>, << 42926, 42926, -42308, 1 >>,
          << 42928, 42928, -42258, 1 >>, << 42929, 42929, -42282, 1 >>,
          << 42930, 42930, -42261, 1 >>, << 42931, 42931, 928, 1 >>,
          << 42932, 42946, 1, 2 >>, << 42948, 42948, -48, 1 >>,
          << 42949, 42949, -42307, 1 >>, << 42950, 42950, -35384, 1 >>,
          << 42951, 42953, 1, 2 >>, << 42955, 42955, -42343, 1 >>,
          << 42956, 42958, 1, 2 >>, << 42960, 42964, 1, 2 >>,
          << 42966, 42970, 1, 2 >>, << 42972, 42972, -42561, 1 >>,
          << 42997, 42997, 1, 1 >>,
          << 65313, 65338, 32, 1 >>, << 66560, 66599, 40, 1 >>,
          << 66736, 66771, 40, 1 >>, << 66928, 66938, 39, 1 >>,
          << 66940, 66954, 39, 1 >>, << 66956, 66962, 39, 1 >>,
          << 66964, 66965, 39, 1 >>, << 68736, 68786, 64, 1 >>,
          << 68944, 68965, 32, 1 >>,
          << 71840, 71871, 32, 1 >>, << 93760, 93791, 32, 1 >>,
          << 93856, 93880, 27, 1 >>,
          << 125184, 125217, 34, 1 >> }
        hit(c) == { r \in runs : r[1] <= c /\ c <= r[2] /\ (c - r[1]) % r[4] = 0 }
        one(c) == IF c < 192
                  THEN << IF c >= 65 /\ c <= 90 THEN c + 32 ELSE c >>
                  ELSE IF c = 304 THEN << 105, 775 >>
                  ELSE IF hit(c) = {} THEN << c >>
                  ELSE << c + (CHOOSE r \in hit(c) : TRUE)[3] >>
        RECURSIVE lower(_)
        lower(k) == IF k = << >> THEN << >> ELSE one(Head(k)) \o lower(Tail(k))
    IN  lower(key)

\* the target a movement key passes to moveToPosition; the cases of the
\* switch are w (119), s (115), a (97), d (100), q (113), e (101), h (104)
\* and the space (32)
keyTarget(key) ==
    Pos(rcPosition.x + (IF key = << 100 >> THEN stepSize
                        ELSE IF key = << 97 >> THEN -stepSize ELSE 0),
        rcPosition.y + (IF key = << 119 >> THEN stepSize
                        ELSE IF key = << 115 >> THEN -stepSize ELSE 0),
        rcPosition.z + (IF key = << 113 >> THEN stepSize
                        ELSE IF key = << 101 >> THEN -stepSize ELSE 0))

\* handleKeyPress(event): keydown on the document. The switch has no default
\* case: a key other than w s a d q e h and the space bar changes nothing.
HandleKeyPress(key) ==
    /\ IF rcEmergencyStop
       THEN UNCHANGED << rcTargetPosition, rcStart, rcTicks, rcEmergencyStop,
                         rcIsMoving >>
       ELSE IF toLowerCase(key) \in { << 119 >>, << 115 >>, << 97 >>,
                                      << 100 >>, << 113 >>, << 101 >> }
       THEN moveToPosition(keyTarget(toLowerCase(key)))
            /\ UNCHANGED << rcEmergencyStop, rcIsMoving >>
       ELSE IF toLowerCase(key) = << 104 >>
       THEN goHome /\ UNCHANGED << rcEmergencyStop, rcIsMoving >>
       ELSE IF toLowerCase(key) = << 32 >>
       THEN triggerEmergencyStop
            /\ UNCHANGED << rcTargetPosition, rcStart, rcTicks >>
       ELSE UNCHANGED << rcTargetPosition, rcStart, rcTicks, rcEmergencyStop,
                         rcIsMoving >>
    /\ rcCall' = "handleKeyPress"
    /\ UNCHANGED << rcPosition, workspace, speed, moveDirection,
                    rcIsCalibrated, loopAlive, rcCalTimers >>
    /\ UNCHANGED << fwVars, wsVars, relayVars >>

\* a field of a frame: absent, or present with value v
Undefined == {}

Defined(v) == { v }

ValueOf(field) == CHOOSE v \in field : TRUE

\* {type: 'position_update', data: {x, y, z}}
PositionFrame(p) == [type |-> "position_update", data |-> p]

\* {type: 'status_update', data}: the flags of the data object, each a
\* boolean or absent; is_calibrated is the documented key, calibrated the
\* key handleStatusUpdate reads
StatusFrame(es, isCal, cal) ==
    [type |-> "status_update",
     data |-> [emergency_stop |-> es, is_calibrated |-> isCal, calibrated |-> cal]]

CalibrationFrame(ok) == [type |-> "calibration_result", data |-> [success |-> ok]]

ErrorFrame == [type |-> "error", data |-> [message |-> "fault"]]

\* the status_update frames of hardware/README.md
DocumentedStatusFrames ==
    { StatusFrame(Defined(es), Defined(isCal), Undefined) :
        es \in BOOLEAN, isCal \in BOOLEAN }

\* broadcasts the relay may send
BroadcastInputs ==
    DocumentedStatusFrames
    \cup { StatusFrame(Undefined, Undefined, Defined(cal)) : cal \in BOOLEAN }
    \cup { PositionFrame(p) : p \in { Pos(Tenths(15), Tenths(20), Tenths(30)), RcHome } }
    \cup { CalibrationFrame(ok) : ok \in BOOLEAN }
    \cup { ErrorFrame }

\* handlePositionUpdate(data)
handlePositionUpdate(data) ==
    /\ rcPosition' = data
    /\ rcStart' = data
    /\ rcTicks' = 0
    /\ UNCHANGED << rcTargetPosition, workspace, speed, rcIsMoving,
                    moveDirection, rcIsCalibrated, rcEmergencyStop, loopAlive,
                    rcCall, rcCalTimers >>

\* handleStatusUpdate(data)
handleStatusUpdate(data) ==
    /\ rcEmergencyStop' = IF data.emergency_stop # Undefined
                          THEN ValueOf(data.emergency_stop) ELSE rcEmergencyStop
    /\ rcIsCalibrated' = IF data.calibrated # Undefined
                         THEN ValueOf(data.calibrated) ELSE rcIsCalibrated
    /\ UNCHANGED << rcPosition, rcTargetPosition, workspace, speed,
                    rcIsMoving, moveDirection, loopAlive, rcStart, rcTicks,
                    rcCall, rcCalTimers >>

\* handleCalibrationResult(data)
handleCalibrationResult(data) ==
    /\ rcIsCalibrated' = IF data.success THEN TRUE ELSE rcIsCalibrated
    /\ UNCHANGED << rcPosition, rcTargetPosition, workspace, speed,
                    rcIsMoving, moveDirection, rcEmergencyStop, loopAlive,
                    rcStart, rcTicks, rcCall, rcCalTimers >>

\* values a caller may pass to setReconnectOptions
ReconnectMaxInputs == { 0 }

ReconnectDelayInputs == { 2 * DefaultReconnectDelay }

\* setReconnectOptions(maxAttempts, delay)
SetReconnectOptions ==
    /\ \E maxAttempts \in ReconnectMaxInputs, delay \in ReconnectDelayInputs :
         /\ maxReconnectAttempts' = maxAttempts
         /\ reconnectDelay' = delay
    /\ UNCHANGED << sockets, socket, isConnected, reconnectAttempts,
                    messageQueue, callbacks, promises, timers, now, wire, lost,
                    msgLog, url >>
    /\ UNCHANGED << fwVars, rcVars, relayVars >>

\* setUrl(url): the address the next connect() uses; one that a WebSocket
\* takes (the default) or one with a scheme it refuses
SetUrl(u) ==
    /\ url' = u
    /\ UNCHANGED << sockets, socket, isConnected, reconnectAttempts,
                    maxReconnectAttempts, reconnectDelay, messageQueue,
                    callbacks, promises, timers, now, wire, lost, msgLog >>
    /\ UNCHANGED << fwVars, rcVars, relayVars >>

\* frames the server may send
Frame(type, id, success) == [type |-> type, id |-> id, success |-> success]

IssuedIds == { promises[k].id : k \in DOMAIN promises }

FrameInputs ==
    { Frame(t, id, ok) : t \in {"response", "absent"}, id \in IssuedIds,
                         ok \in BOOLEAN }
    \cup { Frame("unknown", NoId, FALSE), Frame("nonjson", NoId, FALSE) }

\* handleResponse(message)
handleResponse(f) ==
    IF Pending(f.id)
    THEN Settle(f.id, IF f.success THEN "resolved" ELSE "rejected")
    ELSE UNCHANGED << promises, callbacks >>

\* the message types whose handler reads message.data
DataTypes == { "position_update", "status_update", "calibration_result", "error" }

\* message.data of a frame that has no data key
MissingData == [missing |-> TRUE]

HasData(f) == "missing" \notin DOMAIN f.data

\* frames no handler can use: not JSON, an unknown type, or no data
MalformedFrames ==
    { Frame("nonjson", NoId, FALSE), Frame("unknown", NoId, FALSE) }
    \cup { [type |-> t, data |-> MissingData] : t \in DataTypes }

\* handleMessage(data): JSON.parse, then switch (message.type); msgLog is
\* what it writes to the console. A handler given no data raises a TypeError
\* on its first read of data, inside the try block.
handleMessage(f) ==
    IF f.type = "nonjson" \/ (f.type \in DataTypes /\ ~ HasData(f))
    THEN /\ msgLog' = "Error parsing message"
         /\ UNCHANGED << promises, callbacks, rcVars >>
    ELSE IF f.type = "position_update"
    THEN /\ msgLog' = "Received message"
         /\ handlePositionUpdate(f.data)
         /\ UNCHANGED << promises, callbacks >>
    ELSE IF f.type = "status_update"
    THEN /\ msgLog' = "Robot status update"
         /\ handleStatusUpdate(f.data)
         /\ UNCHANGED << promises, callbacks >>
    ELSE IF f.type = "calibration_result"
    THEN /\ msgLog' = "Received message"
         /\ handleCalibrationResult(f.data)
         /\ UNCHANGED << promises, callbacks >>
    ELSE IF f.type = "error"
    THEN /\ msgLog' = "Robot error"
         /\ UNCHANGED << promises, callbacks, rcVars >>
    ELSE IF f.type = "response"
    THEN /\ msgLog' = "Received message"
         /\ handleResponse(f)
         /\ UNCHANGED rcVars
    ELSE /\ msgLog' = "Unknown message type"
         /\ UNCHANGED << promises, callbacks, rcVars >>

\* a socket fires message: onmessage
OnMessage(f) ==
    /\ \E s \in DOMAIN sockets : sockets[s] = "OPEN"
    /\ handleMessage(f)
    /\ UNCHANGED << sockets, socket, isConnected, reconnectAttempts,
                    maxReconnectAttempts, url, reconnectDelay, messageQueue, timers,
                    now, wire, lost >>
    /\ UNCHANGED << fwVars, relayVars >>

\* time passes; a timer that is due fires before the clock moves on
Tick ==
    /\ now < MaxTime
    /\ \A t \in timers : t.due > now
    /\ now' = now + 1
    /\ UNCHANGED << sockets, socket, isConnected, reconnectAttempts,
                    maxReconnectAttempts, url, reconnectDelay, messageQueue,
                    callbacks, promises, timers, wire, lost, msgLog >>
    /\ UNCHANGED << fwVars, rcVars, relayVars >>

\* -------------------------------------------------------------- Relay/Bridge
\* The relay process (websocket_server.py of the READMEs) after section 4.3
\* of the specification: one FIFO hardware command queue shared by all
\* clients, one command in flight to the firmware, and each firmware
\* response line (POS, STATUS, ERROR, CALIBRATED) routed to the client and
\* id of the oldest in-flight command. The firmware at the other end of the
\* serial line is the loop() above: the relay writes into serialIn and reads
\* the lines the loop prints. serialLine is history: the requests written to
\* the serial port so far, in order.
RelayClients == { "A", "B" }

\* commands one client submits
MaxRelayCmds == 2

RelayCommands == { "move", "emergency_stop", "bogus" }

\* what the relay sends a client: the client and id it is addressed to, and
\* (history) the request the line was printed for
Delivery(to, req, by) ==
    [client |-> to.client, id |-> to.id, answers |-> req, by |-> by]

\* a client's command frame arrives at the relay
RelayReceive(c, kind) ==
    /\ submitted[c] < MaxRelayCmds
    /\ submitted' = [submitted EXCEPT ![c] = @ + 1]
    /\ LET req == [client |-> c, id |-> submitted[c] + 1, command |-> kind,
                   n |-> submitted["A"] + submitted["B"] + 1]
       IN  IF kind \notin { "move", "home", "calibrate", "activate", "deactivate",
                            "emergency_stop", "reset", "get_status" }
           THEN /\ delivered' = Append(delivered, Delivery(req, req, "relay"))
                /\ UNCHANGED hardwareQueue
           ELSE IF kind = "emergency_stop"
           THEN /\ delivered' = delivered \o
                      [i \in DOMAIN hardwareQueue |->
                         Delivery(hardwareQueue[i], hardwareQueue[i], "relay")]
                /\ hardwareQueue' = << req >>
           ELSE /\ hardwareQueue' = Append(hardwareQueue, req)
                /\ UNCHANGED delivered
    /\ UNCHANGED << inFlight, serialLine >>
    /\ UNCHANGED << fwVars, wsVars, rcVars >>

\* the hardware link is free: no command awaits a firmware response
mayIssue == inFlight = << >>

\* the queue's consumer writes the oldest waiting command to the serial
\* line: MOVE:<x>,<y>,<z> with the client's target (A's and B's differ), or
\* EMERGENCY_STOP
RelayIssue ==
    /\ mayIssue
    /\ hardwareQueue # << >>
    /\ Len(serialIn) < MaxSerial
    /\ inFlight' = Append(inFlight, Head(hardwareQueue))
    /\ serialLine' = Append(serialLine, Head(hardwareQueue))
    /\ LET req == Head(hardwareQueue)
           serialLineOf ==
               IF req.command = "move"
               THEN IF req.client = "A" THEN MoveCmd(5, 0, 400)
                                        ELSE MoveCmd(0, -3, 400)
               ELSE Cmd("EMERGENCY_STOP")
       IN  serialIn' = Append(serialIn, serialLineOf)
    /\ hardwareQueue' = Tail(hardwareQueue)
    /\ UNCHANGED << delivered, submitted >>
    /\ UNCHANGED << fwState, moveInterrupted, pinPressed, lastOut, fpc >>
    /\ UNCHANGED << wsVars, rcVars >>

\* the command a firmware response is correlated with: the oldest in flight
routeTo == Head(inFlight)

\* the relay reads the next line the firmware printed. A response line
\* (POS, STATUS, ERROR, CALIBRATED) is routed to the oldest in-flight
\* command, which leaves the link free; any other line, and a response line
\* with nothing in flight, settles nothing. answered is history: the request
\* the lines in lastOut were printed for, which is the one handleCommand
\* read last when the loop has just run handleCommand, and no request for
\* the lines of checkEmergencyStop, updateMotors and the 10 Hz report.
RelayResponse ==
    /\ lastOut # << >>
    /\ lastOut' = Tail(lastOut)
    /\ LET ResponseLines ==
               { "POS", "CALIBRATED", "STATUS:READY", "STATUS:ACTIVE",
                 "STATUS:EMERGENCY", "STATUS:INACTIVE",
                 "ERROR:System not active or emergency stop",
                 "ERROR:Invalid move command format",
                 "ERROR:Position out of workspace bounds",
                 "ERROR:Unknown command",
                 "ERROR:Clear emergency stop before calibration",
                 "ERROR:Clear emergency stop first",
                 "ERROR:Deactivate system before calibration",
                 "ERROR:Release emergency stop button first",
                 "ERROR:Robot not calibrated" }
           NoRequest == [client |-> "-", id |-> 0, command |-> "-", n |-> 0]
           answered ==
               IF fpc = "motors" /\ Len(serialLine) > Len(serialIn)
               THEN serialLine[Len(serialLine) - Len(serialIn)]
               ELSE NoRequest
       IN  IF Head(lastOut) \in ResponseLines /\ inFlight # << >>
           THEN /\ delivered' = Append(delivered,
                                       Delivery(routeTo, answered, "firmware"))
                /\ inFlight' = Tail(inFlight)
           ELSE UNCHANGED << delivered, inFlight >>
    /\ UNCHANGED << hardwareQueue, serialLine, submitted >>
    /\ UNCHANGED << fwState, moveInterrupted, pinPressed, serialIn, fpc >>
    /\ UNCHANGED << wsVars, rcVars >>

InitRelay ==
    /\ hardwareQueue = << >>
    /\ inFlight = << >>
    /\ serialLine = << >>
    /\ delivered = << >>
    /\ submitted = [c \in RelayClients |-> 0]

\* the relay and the firmware on one serial line; the relay has read what
\* the loop printed before the loop prints again
NextRelay ==
    \/ \E c \in RelayClients, kind \in RelayCommands : RelayReceive(c, kind)
    \/ RelayIssue
    \/ RelayResponse
    \/ lastOut = << >> /\ FwCheck
    \/ lastOut = << >> /\ FwCommand
    \/ lastOut = << >> /\ FwNoCommand
    \/ lastOut = << >> /\ FwMotors
    \/ PinChange

\* new WebSocketClient(): connect() has created the first socket
InitWS ==
    /\ sockets = << "CONNECTING" >>
    /\ socket = 1
    /\ isConnected = FALSE
    /\ reconnectAttempts = 0
    /\ maxReconnectAttempts = DefaultMaxReconnectAttempts
    /\ reconnectDelay = DefaultReconnectDelay
    /\ messageQueue = << >>
    /\ callbacks = {}
    /\ promises = << >>
    /\ timers = {}
    /\ now = 0
    /\ wire = << >>
    /\ lost = {}
    /\ msgLog = ""
    /\ url = [scheme |-> "ws", host |-> "localhost", port |-> 8080]

NextWS ==
    \/ SendCommand
    \/ CommandTimeout
    \/ Connect
    \/ Disconnect
    \/ Reconnect
    \/ ManualTimer
    \/ ReconnectTimer
    \/ \E s \in DOMAIN sockets : OnOpen(s)
    \/ \E s \in DOMAIN sockets : OnClose(s)
    \/ \E f \in FrameInputs : OnMessage(f)
    \/ SetReconnectOptions
    \/ \E scheme \in { "ws", "ftp" } :
          SetUrl([scheme |-> scheme, host |-> "localhost", port |-> 8080])
    \/ Tick

\* new RobotController()
InitRC ==
    /\ rcPosition = RcHome
    /\ rcTargetPosition = RcHome
    /\ workspace = DefaultWorkspace
    /\ speed = DefaultSpeed
    /\ rcIsMoving = FALSE
    /\ moveDirection = NoDirection
    /\ rcIsCalibrated = FALSE
    /\ rcEmergencyStop = FALSE
    /\ loopAlive = TRUE
    /\ rcStart = RcHome
    /\ rcTicks = 0
    /\ rcCall = ""
    /\ rcCalTimers = 0

\* the page with the link up: broadcasts arrive, targets and bounds are set
NextRC ==
    \/ \E s \in DOMAIN sockets : OnOpen(s)
    \/ \E f \in BroadcastInputs : OnMessage(f)
    \/ \E t \in TargetInputs : MoveToPosition(t)
    \/ \E bounds \in WorkspaceInputs : SetWorkspaceBounds(bounds)
    \/ GoHome
    \/ Calibrate
    \/ CalibrateTimeout
    \/ TriggerEmergencyStop
    \/ \E key \in KeyInputs : HandleKeyPress(key)
    \/ StartMovement("x", 1)
    \/ StopMovement
    \/ \E s \in SpeedInputs : SetSpeed(s)

\* points of one straight line through the home position, at these distances
\* from it: direction (12, 16, 15) / 25, so that every distance between two
\* of them, and every position a frame reaches, is a whole number of units
LineInputs ==
    LET LineOffsets == { -100, 0, 50, 175, 250 }
        LinePoint(d) ==
            Pos(RcHome.x + (12 * d) \div 25, RcHome.y + (16 * d) \div 25,
                RcHome.z + (15 * d) \div 25)
    IN  { LinePoint(d) : d \in LineOffsets }

\* the controller with a position reported by the robot, a target and a
\* speed chosen by the user
InitInterp ==
    /\ rcPosition \in LineInputs
    /\ rcTargetPosition \in LineInputs
    /\ workspace = DefaultWorkspace
    /\ speed \in SpeedInputs
    /\ rcIsMoving = FALSE
    /\ moveDirection = NoDirection
    /\ rcIsCalibrated = FALSE
    /\ rcEmergencyStop = FALSE
    /\ loopAlive = TRUE
    /\ rcStart = rcPosition
    /\ rcTicks = 0
    /\ rcCall = ""
    /\ rcCalTimers = 0

NextInterp ==
    \/ UpdateLoop
    \/ \E axis \in {"x", "y", "z"}, direction \in {-1, 1} :
          StartMovement(axis, direction)
    \/ StopMovement
    \/ TriggerEmergencyStop
    \/ \E s \in SpeedInputs : SetSpeed(s)
    \/ \E s \in DOMAIN sockets : OnOpen(s)
    \/ \E f \in DocumentedStatusFrames : OnMessage(f)

Init == InitFW /\ InitWS /\ InitRC /\ InitRelay

SpecRC == Init /\ [][NextRC]_vars

InitOnLine == InitFW /\ InitWS /\ InitInterp /\ InitRelay

SpecInterp == InitOnLine /\ [][NextInterp]_vars

SpecFW == Init /\ [][NextFW]_vars

SpecWS == Init /\ [][NextWS]_vars

\* the relay started beside a calibrated and activated firmware at rest at
\* the home position, the button released, the loop at its top and every
\* line printed so far read
InitOnRelay ==
    /\ \E st \in { FwState(HomePos, HomePos, TRUE, FALSE, TRUE, FALSE,
                            AtRest(HomePos), FALSE) } :
         /\ currentPosition = st.currentPosition
         /\ targetPosition = st.targetPosition
         /\ systemActive = st.systemActive
         /\ emergencyStop = st.emergencyStop
         /\ isCalibrated = st.isCalibrated
         /\ isMoving = st.isMoving
         /\ motors = st.motors
         /\ moveInterrupted = st.moveInterrupted
    /\ serialIn = << >>
    /\ lastOut = << >>
    /\ fpc = "check"
    /\ pinPressed = FALSE
    /\ InitWS /\ InitRC /\ InitRelay

SpecRelay == InitOnRelay /\ [][NextRelay]_vars

\* the two receivers fed with input of any form: the firmware about to read
\* a line, the client with requests pending and frames arriving
InitReceivers ==
    /\ \E st \in FwStateInputs, line \in RawLines : FwAt(st, line)
    /\ pinPressed \in BOOLEAN
    /\ InitWS /\ InitRC /\ InitRelay

NextReceivers ==
    \/ FwCommand
    \/ SendCommand
    \/ \E s \in DOMAIN sockets : OnOpen(s)
    \/ \E f \in MalformedFrames : OnMessage(f)

SpecReceivers == InitReceivers /\ [][NextReceivers]_vars

\* the command an operator sends next to bring the firmware to Active
recoveryCommand ==
    IF emergencyStop THEN Cmd("RESET_EMERGENCY")
    ELSE IF ~isCalibrated THEN Cmd("CALIBRATE")
    ELSE Cmd("ACTIVATE")

\* the operator, seeing the firmware not Active, writes that command
RecoveryCommand ==
    /\ ~systemActive
    /\ Len(serialIn) < MaxSerial
    /\ serialIn' = Append(serialIn,
                          [recoveryCommand EXCEPT !.cal = (fpc = "calibrating")])
    /\ UNCHANGED << fwState, moveInterrupted, pinPressed, lastOut, fpc >>
    /\ UNCHANGED << wsVars, rcVars, relayVars >>

\* one step of loop()
FwLoop == FwCheck \/ FwCommand \/ FwNoCommand \/ FwCalibrateDone \/ FwMotors

\* the firmware in one of its states, the button released, about to read
\* any line, accepted or rejected
InitRecover ==
    /\ \E st \in FwStateInputs, line \in SerialInputs : FwAt(st, line)
    /\ pinPressed = FALSE
    /\ InitWS /\ InitRC /\ InitRelay

NextRecover ==
    \/ FwCheck
    \/ FwCommand
    \/ FwNoCommand
    \/ FwCalibrateDone
    \/ FwMotors
    \/ RecoveryCommand

\* loop() runs forever, and the operator keeps sending while not Active
SpecRecover ==
    InitRecover /\ [][NextRecover]_vars /\ WF_vars(FwLoop)
        /\ WF_vars(RecoveryCommand)

\* ------------------------------------------------------ firmware properties
ErrorLines ==
    { "ERROR:System not active or emergency stop",
      "ERROR:Invalid move command format",
      "ERROR:Position out of workspace bounds",
      "ERROR:Clear emergency stop first",
      "ERROR:Robot not calibrated",
      "ERROR:Deactivate system before calibration",
      "ERROR:Clear emergency stop before calibration",
      "ERROR:Release emergency stop button first",
      "ERROR:Unknown command" }

IsErrorOut(out) == Len(out) = 1 /\ out[1] \in ErrorLines

\* this step is the loop's checkEmergencyStop()
IsCheckStep == fpc = "check" /\ fpc' = "command"

\* this step is the loop's handleCommand() of a line with one of these ops
IsCommandStep(ops) ==
    /\ fpc = "command"
    /\ fpc' # "command"
    /\ serialIn # << >>
    /\ Head(serialIn).op \in ops

\* this step is the loop's updateMotors() slot
IsMotorStep == fpc = "motors" /\ fpc' = "check"

MotionOps == {"MOVE", "MOVE_BAD", "HOME"}

\* C1: sampling the pin as pressed, or processing EMERGENCY_STOP, leaves the
\* firmware with emergencyStop set and systemActive clear at the end of that
\* step, from every state; emergencyStop never coexists with systemActive;
\* and while emergencyStop is set an activate, move, home or calibrate
\* command is answered with an error and changes nothing.
C1_EmergencyStopWins ==
    [][ /\ (IsCheckStep /\ pinPressed) => (emergencyStop' /\ ~systemActive')
        /\ IsCommandStep({"EMERGENCY_STOP"}) => (emergencyStop' /\ ~systemActive')
        /\ emergencyStop' => ~systemActive'
        /\ (emergencyStop /\ IsCommandStep(MotionOps \cup {"ACTIVATE", "CALIBRATE"}))
              => /\ fwState' = fwState
                 /\ IsErrorOut(lastOut')
                 /\ fpc' = "motors"
      ]_vars

\* an emergency stop was taken while the system was active and moving
C1_Witness ==
    /\ emergencyStop /\ ~systemActive /\ isCalibrated /\ isMoving
    /\ Len(lastOut) = 2 /\ lastOut[1] = "STATUS:EMERGENCY"

\* C2 (as claimed): once an emergency stop has interrupted a move, the motors
\* make no step, neither during the emergency stop nor after reset and
\* activate, until a new move or home command is accepted.
C2_InterruptedMoveDiscarded ==
    [][ ((emergencyStop \/ moveInterrupted) /\ IsMotorStep) => motors' = motors ]_vars

\* C3: emergencyStop is cleared only by a RESET_EMERGENCY processed with the
\* pin released; a RESET_EMERGENCY processed with the pin pressed prints an
\* error and leaves emergencyStop, systemActive, isCalibrated and the target
\* as they were.
C3_ResetGatedOnPin ==
    [][ /\ (emergencyStop /\ ~emergencyStop')
            => (IsCommandStep({"RESET_EMERGENCY"}) /\ ~pinPressed)
        /\ (IsCommandStep({"RESET_EMERGENCY"}) /\ pinPressed)
            => /\ UNCHANGED << emergencyStop, systemActive, isCalibrated,
                               targetPosition >>
               /\ lastOut' = << "ERROR:Release emergency stop button first" >>
      ]_vars

\* a reset was refused while the button was held in emergency stop
C3_Witness ==
    /\ emergencyStop /\ pinPressed /\ isCalibrated
    /\ lastOut = << "ERROR:Release emergency stop button first" >>

\* C4: systemActive implies isCalibrated and not emergencyStop, in every
\* state; ACTIVATE sets systemActive exactly when calibrated and not in
\* emergency stop, and is otherwise answered with an error, state unchanged.
C4_ActiveImpliesCalibrated ==
    /\ [](systemActive => (isCalibrated /\ ~emergencyStop))
    /\ [][ IsCommandStep({"ACTIVATE"}) =>
             IF isCalibrated /\ ~emergencyStop
             THEN systemActive'
             ELSE fwState' = fwState /\ IsErrorOut(lastOut') ]_vars

\* an activate was accepted
C4_Witness ==
    /\ systemActive /\ isCalibrated /\ ~emergencyStop
    /\ lastOut = << "STATUS:ACTIVE", "System activated" >>

\* C5: a MOVE or HOME processed while the firmware is not Active prints an
\* error and leaves the target, the motors, isMoving and the operational
\* flags unchanged; a MOVE or HOME changes the target only in Active.
C5_MoveRejectedUnlessActive ==
    [][ IsCommandStep(MotionOps) =>
          /\ ~(systemActive /\ ~emergencyStop)
               => /\ IsErrorOut(lastOut')
                  /\ UNCHANGED << targetPosition, motors, isMoving, systemActive,
                                  emergencyStop, isCalibrated >>
          /\ targetPosition' # targetPosition => (systemActive /\ ~emergencyStop)
      ]_vars

\* a move was refused in Ready (calibrated, inactive, no emergency)
C5_Witness ==
    /\ isCalibrated /\ ~systemActive /\ ~emergencyStop
    /\ lastOut = << "ERROR:System not active or emergency stop" >>

\* ------------------------------------------------ command channel properties
\* the response frame of hardware/README.md: {id, success, data, error}, no type
IsDocumentedResponse(f) == f.type = "absent"

\* the promise registered under id
PromiseOf(id) == (CHOOSE e \in callbacks : e.id = id).p

\* C6 (as claimed): when a response frame in the documented format arrives
\* whose id is pending, the pending request is resolved if success is true
\* and rejected otherwise, and its callbacks entry is removed.
C6_DocumentedResponseSettles ==
    [][ \A f \in FrameInputs :
          (OnMessage(f) /\ IsDocumentedResponse(f) /\ Pending(f.id))
            => /\ ~ Pending(f.id)'
               /\ promises'[PromiseOf(f.id)].st =
                      IF f.success THEN "resolved" ELSE "rejected"
      ]_vars

\* C7 (as claimed): a request is failed with Timeout exactly at its deadline,
\* and once it has timed out the channel holds neither a callbacks entry nor
\* a queued message with its id.
C7_TimeoutForgetsId ==
    \A k \in DOMAIN promises :
        promises[k].st = "timeout" =>
            /\ now >= promises[k].due
            /\ ~ Pending(promises[k].id)
            /\ \A i \in DOMAIN messageQueue : messageQueue[i].id # promises[k].id

\* C8 (as claimed): every request is settled once, by its response or at the
\* latest when its own deadline timer fires; resolve/reject is never called
\* twice on a request.
C8_SettlesExactlyOnce ==
    \A k \in DOMAIN promises :
        /\ promises[k].calls <= 1
        /\ promises[k].st = "pending"
             => \E t \in timers : t.kind = "command" /\ t.p = k

\* C9 (as claimed): no two sendCommand calls get the same id.
C9_IdsUnique ==
    \A j, k \in DOMAIN promises : j # k => promises[j].id # promises[k].id

\* C10 (as claimed): no message taken from the queue is dropped, and the
\* messages reach the wire once each, in submission order.
C10_QueueFlushedInOrder ==
    /\ lost = {}
    /\ \A i, j \in DOMAIN wire : i < j => wire[i].n < wire[j].n

\* -------------------------------------------------------- link properties
\* this step is the callback of handleDisconnection's timer: an automatic
\* reconnect attempt (the only step that counts reconnectAttempts up)
IsReconnectAttempt == reconnectAttempts' = reconnectAttempts + 1

\* the reconnect timers this step has scheduled
ScheduledReconnects == { t \in timers' \ timers : t.kind = "reconnect" }

\* C11 (as claimed): every automatic reconnect attempt leaves the attempt
\* counter at or below maxReconnectAttempts; no automatic connect is made
\* once the counter has reached the maximum.
C11_ReconnectStopsAtMaximum ==
    [][ IsReconnectAttempt => reconnectAttempts' <= maxReconnectAttempts' ]_vars

\* C12 (as claimed): the reconnect scheduled when n - 1 attempts have been
\* made since the last open (the n-th attempt, n from 1) has a delay of
\* reconnectDelay * n.
C12_ReconnectDelayLinear ==
    [][ \A t \in ScheduledReconnects :
          t.delay = reconnectDelay * (reconnectAttempts + 1) ]_vars

\* C13 (as claimed): the close of a socket the client closed itself
\* (disconnect, reconnect: the socket was CLOSING) schedules no automatic
\* reconnect.
C13_NoReconnectAfterOwnClose ==
    [][ (\E s \in DOMAIN sockets :
            sockets[s] = "CLOSING" /\ sockets'[s] = "CLOSED")
          => ScheduledReconnects = {} ]_vars

\* ------------------------------------------------- RobotController properties
\* what handleMoveCommand does with target t once the system is Active: the
\* target it sets, or a rejection. The bounds are tested on the numbers of
\* the command themselves, t.x / RcScale against FwXMin / PosScale and so on
\* (both sides multiplied by RcScale * PosScale), with no rounding before.
fwMoveOutcome(t) ==
    IF \/ t.x * PosScale < FwXMin * RcScale \/ t.x * PosScale > FwXMax * RcScale
       \/ t.y * PosScale < FwYMin * RcScale \/ t.y * PosScale > FwYMax * RcScale
       \/ t.z * PosScale < FwZMin * RcScale \/ t.z * PosScale > FwZMax * RcScale
    THEN [accepted |-> FALSE, target |-> << >>]
    ELSE [accepted |-> TRUE, target |-> << t.x, t.y, t.z >>]

\* this step is a moveToPosition(t) call that reached the clamping lines
IsValidatedMove(t) ==
    ~rcEmergencyStop /\ rcCall' = "moveToPosition" /\ MoveToPosition(t)

\* v moved to the nearest point of [lo, hi]
Nearest(lo, hi, v) == IF v < lo THEN lo ELSE IF v > hi THEN hi ELSE v

\* C14 (as claimed): for a target outside the client's workspace bounds,
\* moveToPosition and the firmware's handleMoveCommand give the same outcome:
\* both reject it, or both set the same target.
C14_SamePolicyAtEveryTier ==
    [][ \A t \in TargetInputs :
          (IsValidatedMove(t) /\ ~ isInWorkspace(t))
            => fwMoveOutcome(t) =
                 [accepted |-> TRUE,
                  target |-> << rcTargetPosition'.x, rcTargetPosition'.y,
                                rcTargetPosition'.z >>]
      ]_vars

\* C15: a moveToPosition call that is not refused for emergency stop sets the
\* target to the input when the input is inside the current workspace bounds,
\* and otherwise to the input moved per axis to the nearest bound; the target
\* it sets is inside the bounds and is a fixed point of the clamping;
\* (10, 10, 10) with every axis in [-2.5, 2.5] gives (2.5, 2.5, 2.5).
C15_ValidatorClamps ==
    [][ \A t \in TargetInputs :
          IsValidatedMove(t) =>
            /\ isInWorkspace(t) => rcTargetPosition' = t
            /\ rcTargetPosition' =
                 Pos(Nearest(workspace.x.min, workspace.x.max, t.x),
                     Nearest(workspace.y.min, workspace.y.max, t.y),
                     Nearest(workspace.z.min, workspace.z.max, t.z))
            /\ isInWorkspace(rcTargetPosition')
            /\ \A a \in {"x", "y", "z"} :
                 Nearest(workspace[a].min, workspace[a].max,
                         rcTargetPosition'[a]) = rcTargetPosition'[a]
            /\ ( /\ t = Pos(Tenths(100), Tenths(100), Tenths(100))
                 /\ \A a \in {"x", "y", "z"} :
                      workspace[a] = [min |-> -Tenths(25), max |-> Tenths(25)] )
                 => rcTargetPosition' = Pos(Tenths(25), Tenths(25), Tenths(25))
      ]_vars

\* (10, 10, 10) was clamped to (2.5, 2.5, 2.5) in the cube of side 5
C15_Witness ==
    /\ rcTargetPosition = Pos(Tenths(25), Tenths(25), Tenths(25))
    /\ \A a \in {"x", "y", "z"} :
         workspace[a] = [min |-> -Tenths(25), max |-> Tenths(25)]

\* the distance from p to q
Dist(p, q) == Sqrt(Dist2(p, q))

\* C16: with the target left alone, a call of updatePosition at a distance
\* above 0.01 moves the position along the straight line to the target by
\* min(speed * 0.016, distance) at the speed set at that moment, never past
\* the target; a call at a distance of at most 0.01 leaves the position
\* unchanged; and once the calls made since the target was set would cover
\* the starting distance at the slowest speed the page sets, the position is
\* within 0.01 of the target, whatever speed changes came in between.
C16_InterpolatorConverges ==
    /\ [][ rcTicks' = rcTicks + 1 =>
             LET d == Dist(rcPosition, rcTargetPosition)
                 moved == Min(perFrame(speed), d)
             IN  IF Significant(Dist2(rcPosition, rcTargetPosition))
                 THEN /\ Dist(rcPosition', rcTargetPosition) = d - moved
                      /\ Dist(rcPosition, rcPosition') = moved
                      /\ \A a \in {"x", "y", "z"} :
                           (rcTargetPosition[a] - rcPosition'[a]) * d
                             = (rcTargetPosition[a] - rcPosition[a]) * (d - moved)
                 ELSE rcPosition' = rcPosition
         ]_vars
    /\ [](\A slowest \in SpeedInputs :
            ( /\ \A s \in SpeedInputs : slowest <= s
              /\ rcTicks * perFrame(slowest) >= Dist(rcStart, rcTargetPosition) )
            => ~ Significant(Dist2(rcPosition, rcTargetPosition)))

\* a move of more than two frames has ended on its target with a last,
\* shorter step
C16_Witness ==
    /\ rcTicks >= 3
    /\ rcPosition = rcTargetPosition
    /\ Dist(rcStart, rcTargetPosition) > 2 * perFrame(speed)
    /\ Dist(rcStart, rcTargetPosition) < 3 * perFrame(speed)

\* C17 (as claimed): after a status_update frame in the documented format
\* the client's emergency-stop flag equals emergency_stop and its calibrated
\* flag equals is_calibrated; after a position_update its position is the
\* broadcast one.
C17_ReplicaConverges ==
    [][ \A f \in BroadcastInputs :
          OnMessage(f) =>
            /\ f \in DocumentedStatusFrames
                 => /\ rcEmergencyStop' = ValueOf(f.data.emergency_stop)
                    /\ rcIsCalibrated' = ValueOf(f.data.is_calibrated)
            /\ f.type = "position_update" => rcPosition' = f.data
      ]_vars

\* --------------------------------------------- firmware properties, continued
\* C18 (as claimed, for a press during a calibration): the emergency button
\* is not released while the firmware is inside a calibration unless the
\* firmware has entered EmergencyStop, so the press is never lost.
C18_PressNeverIgnored ==
    [][ (fpc = "calibrating" /\ pinPressed /\ ~pinPressed') => emergencyStop ]_vars

\* C19 (as claimed): a RESET_EMERGENCY accepted in EmergencyStop prints
\* STATUS:READY and leaves the firmware Ready: no emergency stop, not active,
\* and calibrated, so that a following ACTIVATE is accepted.
C19_ResetLeadsToReady ==
    [][ (IsCommandStep({"RESET_EMERGENCY"}) /\ emergencyStop /\ ~pinPressed)
          => /\ lastOut'[1] = "STATUS:READY"
             /\ ~emergencyStop' /\ ~systemActive'
             /\ isCalibrated'
      ]_vars

\* C20 (as claimed): an ACTIVATE or MOVE line that arrived during a
\* calibration is answered with an error when it is processed, and leaves
\* the operational flags and the target unchanged.
C20_RejectedWhileCalibrating ==
    [][ (IsCommandStep({"ACTIVATE", "MOVE", "MOVE_BAD"}) /\ Head(serialIn).cal)
          => /\ IsErrorOut(lastOut')
             /\ UNCHANGED << systemActive, emergencyStop, isCalibrated,
                             targetPosition >>
      ]_vars

\* ------------------------------------ RobotController properties, continued
\* C21 (as claimed): every moveToPosition call made while the emergency
\* flag is clear hands exactly one move command to the command channel
\* (sent, or queued while disconnected) and returns without raising.
C21_AcceptedMoveSubmitsCommand ==
    [][ \A t \in TargetInputs :
          IsValidatedMove(t) =>
            /\ Len(promises') = Len(promises) + 1
            /\ promises'[Len(promises')].command = "move"
            /\ Len(wire') + Len(messageQueue') = Len(wire) + Len(messageQueue) + 1
            /\ ~ moveToPositionThrows
      ]_vars

\* this step is the emergency-stop button, or the space key, toggling the flag
IsEmergencyToggle ==
    /\ TriggerEmergencyStop \/ HandleKeyPress(<< 32 >>)
    /\ rcEmergencyStop' # rcEmergencyStop

\* C22 (as claimed): setting the client's emergency flag from the button or
\* the space key submits an emergency_stop command, and resetting it submits
\* a reset command.
C22_EmergencyToggleSubmitsCommand ==
    [][ IsEmergencyToggle =>
          /\ Len(promises') = Len(promises) + 1
          /\ promises'[Len(promises')].command =
                IF rcEmergencyStop' THEN "emergency_stop" ELSE "reset"
      ]_vars

\* C27 (as claimed): while the client's emergency flag stays set, the
\* position shown by the client does not change: no update tick interpolates.
C27_EmergencyStopHaltsPosition ==
    [][ (rcEmergencyStop /\ rcEmergencyStop') => rcPosition' = rcPosition ]_vars

\* this step is one of the motion requests of the page: moveToPosition,
\* goHome, calibrate, startMovement, or a movement or home key, in either case
IsMotionRequest ==
    \/ \E t \in TargetInputs : MoveToPosition(t)
    \/ GoHome
    \/ Calibrate
    \/ \E axis \in {"x", "y", "z"}, direction \in {-1, 1} :
          StartMovement(axis, direction)
    \/ \E key \in KeyInputs :
          /\ toLowerCase(key) \in { << 119 >>, << 115 >>, << 97 >>, << 100 >>,
                                  << 113 >>, << 101 >>, << 104 >> }
          /\ HandleKeyPress(key)

\* C28: while the client's emergency flag is set, moveToPosition, goHome,
\* calibrate, startMovement and the movement keys leave targetPosition and
\* isMoving unchanged and submit no command.
C28_RequestsRefusedInEmergency ==
    [][ (rcEmergencyStop /\ IsMotionRequest) =>
          UNCHANGED << rcTargetPosition, rcIsMoving, moveDirection, promises,
                       callbacks, messageQueue, wire >>
      ]_vars

\* a move button was pressed during an emergency stop, and nothing moves
C28_Witness ==
    /\ rcEmergencyStop
    /\ rcCall = "startMovement"
    /\ ~ rcIsMoving /\ moveDirection = NoDirection

\* --------------------------------------------- firmware properties, continued
\* the lines the last step of the firmware printed
Printed(line) == \E i \in DOMAIN lastOut : lastOut[i] = line

\* C29 (as claimed): a STATUS line names the state the firmware is in when
\* it is printed: STATUS:EMERGENCY only with emergencyStop set, STATUS:ACTIVE
\* only when Active, STATUS:READY only when calibrated, inactive and not in
\* emergency stop.
C29_StatusNamesState ==
    /\ Printed("STATUS:EMERGENCY") => emergencyStop
    /\ Printed("STATUS:ACTIVE") => (systemActive /\ isCalibrated /\ ~emergencyStop)
    /\ Printed("STATUS:READY") => (isCalibrated /\ ~systemActive /\ ~emergencyStop)

\* the line is not a command of the protocol: an unknown word, a MOVE
\* without its two commas, or a MOVE with a field that is not a number
IsMalformedLine(c) ==
    \/ c.op \in {"UNKNOWN", "MOVE_BAD"}
    \/ c.op = "MOVE" /\ c.text # Numbers

\* C23 (as claimed): a malformed or unrecognised input is dropped and leaves
\* the receiver as it was: at the client the pending requests, the message
\* queue and the connection state, for a frame that is not JSON, has an
\* unknown type or has no data; at the firmware the operational flags, the
\* target and the motion flag, for an unknown line or an ill-formed MOVE.
C23_MalformedInputDropped ==
    [][ /\ (\E f \in MalformedFrames : OnMessage(f))
             => UNCHANGED << promises, callbacks, messageQueue, isConnected,
                             sockets, socket, rcVars >>
        /\ (fpc = "command" /\ fpc' # "command" /\ serialIn # << >>
              /\ IsMalformedLine(Head(serialIn)))
             => UNCHANGED << systemActive, emergencyStop, isCalibrated,
                             targetPosition, isMoving >>
      ]_vars

\* v is a number between lo and hi
Within(lo, hi, v) == v # NaN /\ lo <= v /\ v <= hi

WithinFwBounds(p) ==
    /\ Within(FwXMin, FwXMax, p.X)
    /\ Within(FwYMin, FwYMax, p.Y)
    /\ Within(FwZMin, FwZMax, p.Z)

\* the position a MOVE line asks for, as handleMoveCommand reads it
Requested(c) ==
    [X |-> toFloat(c.text[1], c.x), Y |-> toFloat(c.text[2], c.y),
     Z |-> toFloat(c.text[3], c.z)]

\* C26 (as claimed): the firmware's target lies within the firmware bounds
\* in every state, and a MOVE whose position is not within them is answered
\* with an error and changes neither the target, nor the motor targets, nor
\* the motion flag.
C26_TargetWithinFirmwareBounds ==
    /\ [] WithinFwBounds(targetPosition)
    /\ [][ (IsCommandStep({"MOVE"}) /\ ~ WithinFwBounds(Requested(Head(serialIn))))
             => /\ IsErrorOut(lastOut')
                /\ UNCHANGED << targetPosition, motors, isMoving >>
         ]_vars

\* ------------------------------------------------ link properties, continued
\* the sockets that are connecting or open
LiveSockets == { s \in DOMAIN sockets : sockets[s] \in {"CONNECTING", "OPEN"} }

\* C30 (as claimed): at most one socket is connecting or open at any time;
\* isConnected holds only while the current socket is open; and an open or
\* close event of a socket that is no longer the current one changes neither
\* isConnected nor the queue and schedules no reconnect.
C30_OneLiveSocket ==
    /\ [] (Cardinality(LiveSockets) <= 1)
    /\ [] (isConnected => (socket # 0 /\ sockets[socket] = "OPEN"))
    /\ [][ \A s \in DOMAIN sockets :
             ((OnOpen(s) \/ OnClose(s)) /\ s # socket)
               => /\ UNCHANGED << isConnected, messageQueue >>
                  /\ ScheduledReconnects = {}
         ]_vars

\* ------------------------------------------------------- relay properties
\* the responses the firmware produced, in the order the relay routed them
FirmwareDeliveries == { i \in DOMAIN delivered : delivered[i].by = "firmware" }

\* C25 (as claimed): at the relay at most one command is in flight to the
\* firmware; the commands of all clients are issued in the order they
\* arrived at the one hardware queue; a command is written only after every
\* command written before it has had its firmware response; and every
\* response reaches the client and the id of the command it answers, so two
\* clients issuing moves concurrently each get the response to their own
\* command.
C25_OneCommandInFlight ==
    /\ Len(inFlight) <= 1
    /\ \A k \in 1 .. Len(serialLine) - 1 :
         \E i \in FirmwareDeliveries : delivered[i].answers = serialLine[k]
    /\ \A i \in DOMAIN delivered :
         /\ delivered[i].client = delivered[i].answers.client
         /\ delivered[i].id = delivered[i].answers.id
    /\ \A i, j \in FirmwareDeliveries :
         i < j => delivered[i].answers.n < delivered[j].answers.n
    /\ \A i \in DOMAIN hardwareQueue :
         /\ \A k \in DOMAIN inFlight : inFlight[k].n < hardwareQueue[i].n
         /\ \A j \in DOMAIN hardwareQueue :
              i < j => hardwareQueue[i].n < hardwareQueue[j].n

\* C24: with the emergency button released, from every firmware state and
\* after any command, accepted or rejected, a finite sequence of reset,
\* calibrate and activate commands brings the firmware to Active: sending
\* RESET_EMERGENCY in emergency stop, CALIBRATE while uncalibrated and
\* ACTIVATE otherwise, the firmware becomes Active and stays so.
C24_ErrorsRecoverable == <>[] (systemActive /\ isCalibrated /\ ~emergencyStop)

\* the firmware is Active again after an emergency stop that interrupted a
\* move: reset and activate were accepted
C24_Witness ==
    /\ systemActive /\ ~emergencyStop /\ moveInterrupted
    /\ serialIn = << >>

====
